---- MODULE Spec2Model ----
(***************************************************************************)
(* Reconciliation core of sync-agents: the Apply Engine (applyPlan with    *)
(* backup, write, verify and rollback), the MCP config merger, and the     *)
(* plan builders, modelled as state machines over an abstract filesystem.  *)
(*                                                                         *)
(* Paths are sequences of segments (<<"claude","commands","x.md">> is the  *)
(* file commands/x.md under the root of client claude).  File texts are    *)
(* records [body, keys]: a markdown body and the set of front-matter keys  *)
(* it carries.  sha1 is taken to be injective.                             *)
(***************************************************************************)
EXTENDS Integers, Sequences, FiniteSets, TLC

VARIABLES
    plan,            \* applyPlan argument: the plan entries
    options,         \* SyncOptions: [dryRun, link, mode, source, priority]
    fs,              \* the filesystem: path -> node
    idx,             \* position of the for-loop over the plan (1-based)
    pc,              \* position inside applyPlan
    result,          \* ApplyResult
    appliedChanges,  \* AppliedChange[] of this run
    backupPath,      \* local variable backupPath of the current iteration
    rbq,             \* changes still to visit in rollbackChanges
    trace,           \* history: filesystem operations issued, in order
    fs0,             \* history: the filesystem when the run started
    run,             \* history: number of the current discover/plan/apply run
    mcp,             \* state of the MCP merger harness
    discovered,      \* AssetContent[] found by the discovery of this run
    prev,            \* history: how the previous run ended
    answers,         \* interactive flow: the scope and direction answered
    assetConflicts,  \* interactive flow: AssetConflict[] detected, then resolved
    desiredMap,      \* the desired assets the plan builder settled on, by key
    mtime,           \* modification time of the files before the run, by path
    pathCase         \* state of the path function harness

vars == <<plan, options, fs, idx, pc, result, appliedChanges, backupPath,
          rbq, trace, fs0, run, mcp, discovered, prev, answers,
          assetConflicts, desiredMap, mtime, pathCase>>

applyVars == <<plan, options, fs, idx, pc, result, appliedChanges,
               backupPath, rbq, trace, fs0, run>>

\* what the Apply Engine never touches
flowVars == <<assetConflicts, desiredMap, mtime, pathCase>>

others == <<mcp, discovered, prev, answers, flowVars>>

----------------------------------------------------------------------------
(* Bounds *)

MaxPlan == 2

----------------------------------------------------------------------------
(* Sequences *)

RECURSIVE Reverse(_)
Reverse(s) == IF s = <<>> THEN <<>> ELSE Append(Reverse(Tail(s)), Head(s))

Last(s) == s[Len(s)]

SeqsUpTo(S, n) == UNION { [1..k -> S] : k \in 0..n }

\* the elements of a set in some order
RECURSIVE SetToSeq(_)
SetToSeq(S) ==
    IF S = {} THEN <<>>
    ELSE LET x == CHOOSE y \in S : TRUE IN <<x>> \o SetToSeq(S \ {x})

----------------------------------------------------------------------------
(* File texts and hashing (fs.ts) *)

NoText == [body |-> "", keys |-> {}]

\* what is left in a file by a write that did not complete
Truncated == [body |-> "<truncated>", keys |-> {}]

hashContent(content) == <<"sha1", content>>

----------------------------------------------------------------------------
(* Front-matter transforms (frontmatter.ts) *)

CURSOR_ONLY_KEYS == {"argument-hint", "model"}
CLAUDE_ONLY_KEYS == {"allowed_tools"}
STRIP_CURSOR_KEYS_FOR == {"claude", "codex"}
STRIP_CLAUDE_KEYS_FOR == {"cursor", "windsurf", "cline", "roo"}

stripClientSpecificFrontmatter(content, keysToStrip) ==
    [content EXCEPT !.keys = @ \ keysToStrip]

\* a named colour becomes its hex form, a tools list becomes a tools object
transformForOpenCode(content) ==
    [content EXCEPT !.keys =
        (@ \ {"color-name", "tools-list"})
          \cup (IF "color-name" \in @ THEN {"color-hex"} ELSE {})
          \cup (IF "tools-list" \in @ THEN {"tools-object"} ELSE {})]

transformContentForClient(content, targetClient, assetType) ==
    IF targetClient = "opencode" /\ assetType = "agents"
      THEN transformForOpenCode(content)
    ELSE IF assetType = "commands" /\ targetClient \in STRIP_CURSOR_KEYS_FOR
      THEN stripClientSpecificFrontmatter(content, CURSOR_ONLY_KEYS)
    ELSE IF assetType = "commands" /\ targetClient \in STRIP_CLAUDE_KEYS_FOR
      THEN stripClientSpecificFrontmatter(content, CLAUDE_ONLY_KEYS)
    ELSE content

----------------------------------------------------------------------------
(* Paths (paths.ts, validation.ts).  A relative path is the sequence of the  *)
(* pieces its string has between slashes; an absolute path is the sequence   *)
(* of its segments below "/".                                                *)

IsPrefix(s, t) == Len(s) <= Len(t) /\ SubSeq(t, 1, Len(s)) = s

Max(S) == CHOOSE x \in S : \A y \in S : y <= x

Drop(s, n) == SubSeq(s, n + 1, Len(s))

\* A POSIX file name may hold backslashes; replace(/\\/g, "/") turns each
\* of them into a separator.
SplitBackslash(seg) ==
    CASE seg = "..\\..\\x.md" -> <<"..", "..", "x.md">>
      [] seg = "a\\b.md" -> <<"a", "b.md">>
      [] OTHER -> <<seg>>

RECURSIVE normalizeRelativePath(_)
normalizeRelativePath(relativePath) ==
    IF relativePath = <<>> THEN <<>>
    ELSE SplitBackslash(Head(relativePath))
           \o normalizeRelativePath(Tail(relativePath))

\* .split("/").filter(Boolean)
Segments(relativePath) ==
    SelectSeq(normalizeRelativePath(relativePath), LAMBDA seg : seg # "")

\* path.normalize: "." and "" go, ".." takes the segment before it; above
\* the start it stays in a relative path and goes in an absolute one
RECURSIVE NormalizeOnto(_, _, _)
NormalizeOnto(done, rest, absolute) ==
    IF rest = <<>> THEN done
    ELSE LET seg == Head(rest)
         IN  IF seg \in {"", "."} THEN NormalizeOnto(done, Tail(rest), absolute)
             ELSE IF seg # ".." THEN NormalizeOnto(Append(done, seg), Tail(rest), absolute)
             ELSE IF done # <<>> /\ Last(done) # ".."
               THEN NormalizeOnto(SubSeq(done, 1, Len(done) - 1), Tail(rest), absolute)
             ELSE IF absolute THEN NormalizeOnto(done, Tail(rest), absolute)
             ELSE NormalizeOnto(Append(done, ".."), Tail(rest), absolute)

Normalize(p) == NormalizeOnto(<<>>, p, TRUE)

\* path.posix.join of relative pieces
PosixJoin(p) == NormalizeOnto(<<>>, p, FALSE)

\* path.relative between two normalized absolute paths
RECURSIVE CommonLen(_, _)
CommonLen(s, t) ==
    IF s = <<>> \/ t = <<>> \/ Head(s) # Head(t) THEN 0
    ELSE 1 + CommonLen(Tail(s), Tail(t))

Relative(from, to) ==
    LET k == CommonLen(from, to)
    IN  [i \in 1..(Len(from) - k) |-> ".."] \o Drop(to, k)

\* names whose text begins with two dots
DotDotNames == {"..", "..x.md"}

\* String.prototype.startsWith("..") on the relative path
StartsWithDotDot(relative) == relative # <<>> /\ relative[1] \in DotDotNames

\* validatePathSafe returns (TRUE) or throws (FALSE); path.relative never
\* gives an absolute path on POSIX
validatePathSafe(root, targetPath) ==
    ~StartsWithDotDot(Relative(Normalize(root), Normalize(targetPath)))

\* String.prototype.toLowerCase on the names the code compares
Lower(name) ==
    CASE name \in {"CLAUDE.md", "Claude.md", "claude.md"} -> "claude.md"
      [] name = "AGENTS.md" -> "agents.md"
      [] OTHER -> name

RECURSIVE JoinDash(_)
JoinDash(segs) ==
    IF segs = <<>> THEN ""
    ELSE IF Len(segs) = 1 THEN segs[1]
    ELSE segs[1] \o "-" \o JoinDash(Tail(segs))

fromPromptPath(relativePath) ==
    LET segments == Segments(relativePath)
    IN  IF Len(segments) = 0 THEN <<"commands", "command.md">>
        ELSE PosixJoin(<<"commands">>
                         \o Drop(segments, IF segments[1] = "prompts" THEN 1 ELSE 0))

toPromptPath(relativePath) ==
    LET segments == Segments(relativePath)
    IN  IF Len(segments) = 0 THEN <<"prompts", "command.md">>
        ELSE PosixJoin(<<"prompts",
                         JoinDash(Drop(segments,
                                       IF segments[1] = "commands" THEN 1 ELSE 0))>>)

canonicalizeRelativePath(client, type, relativePath) ==
    LET normalized == normalizeRelativePath(relativePath)
    IN  IF type = "agents" /\ Len(normalized) = 1 /\ Lower(normalized[1]) = "claude.md"
          THEN <<"AGENTS.md">>
        ELSE IF type = "commands" /\ client = "codex" THEN fromPromptPath(normalized)
        ELSE normalized

denormalizeRelativePath(client, type, canonicalPath) ==
    IF type = "agents" /\ client = "claude" /\ canonicalPath = <<"AGENTS.md">>
      THEN <<"CLAUDE.md">>
      ELSE canonicalPath

\* path.join(root, ...segments), which normalizes
buildTargetAbsolutePath(root, relativePath) ==
    Normalize(root \o Segments(relativePath))

resolveTargetRelativePath(targetClient, asset) ==
    IF asset.client = targetClient
      THEN normalizeRelativePath(asset.relativePath)
      ELSE denormalizeRelativePath(targetClient, asset.type, asset.canonicalPath)

remapRelativePathForTarget(asset, targetClient, relativePath) ==
    LET normalized == normalizeRelativePath(relativePath)
    IN  IF asset.type = "commands" /\ targetClient = "codex"
          THEN toPromptPath(normalized)
          ELSE normalized

----------------------------------------------------------------------------
(* The filesystem *)

NoPath == <<>>

NoNode == [kind |-> "none", content |-> NoText, target |-> NoPath]
FileNode(content) == [kind |-> "file", content |-> content, target |-> NoPath]
LinkNode(target) == [kind |-> "link", content |-> NoText, target |-> target]
DirNode == [kind |-> "dir", content |-> NoText, target |-> NoPath]

\* the system resolves the ".." of a path it is given
Node(f, p) == IF Normalize(p) \in DOMAIN f THEN f[Normalize(p)] ELSE NoNode

Put(f, p, n) ==
    [q \in (DOMAIN f) \cup {Normalize(p)} |-> IF q = Normalize(p) THEN n ELSE f[q]]

\* the directory of a client
Root(client) == <<client>>

\* `${filePath}.bak`
BackupOf(p) == [p EXCEPT ![Len(p)] = @ \o ".bak"]

----------------------------------------------------------------------------
(* Apply Engine: applyPlan and rollbackChanges (apply.ts) *)

\* SyncOptions as parseCliArgs builds them; source "", clients {} and
\* priority <<>> stand for undefined, and options.types is never set
Options(dryRun, link, mode, source, clients) ==
    [dryRun |-> dryRun, link |-> link, mode |-> mode, source |-> source,
     clients |-> clients, priority |-> <<>>]

\* no modification time is known
NoMtime == [p \in {} |-> 0]

\* no path function is being applied
NoPathCase == [phase |-> "none"]

\* nothing has been asked
NoAnswers == [scope |-> "all", direction |-> "sync", targets |-> <<>>]

\* no run has ended yet
NoRun == [ended |-> FALSE, threw |-> FALSE, planned |-> 0, failed |-> 0,
          applied |-> 0]

EmptyResult ==
    [applied |-> 0, skipped |-> 0, failed |-> 0, backups |-> <<>>,
     errors |-> <<>>, rolledBack |-> FALSE]

entry == plan[idx]

useSymlinks == options.link

transformedContent ==
    transformContentForClient(entry.asset.content, entry.targetClient,
                              entry.asset.type)

Op(op, p) == [op |-> op, path |-> p, entry |-> idx]

\* readFileSafe: the text of a regular file, or null (NoNode) when the file
\* is absent or cannot be read
readFileSafe(f, p, readOk) ==
    IF Node(f, p).kind = "file" /\ readOk THEN Node(f, p) ELSE NoNode

\* the skip-unchanged test of lines 80-108
Unchanged(readOk) ==
    IF ~useSymlinks
      THEN LET existing == readFileSafe(fs, entry.targetPath, readOk)
           IN  /\ existing.kind = "file"
               /\ hashContent(existing.content) = hashContent(transformedContent)
      ELSE /\ Node(fs, entry.targetPath).kind = "link"
           /\ Node(fs, entry.targetPath).target = entry.asset.path

\* the read of lines 82 and 97 as it is logged: "read-failed" when the
\* destination is a file that could not be read
CheckOp(readOk) ==
    Op(IF useSymlinks THEN "readlink"
       ELSE IF readOk \/ Node(fs, entry.targetPath).kind # "file" THEN "read"
       ELSE "read-failed",
       entry.targetPath)

\* lines 50-55 and 179: nothing (more) to do
ReturnResult ==
    /\ pc = "loop"
    /\ idx > Len(plan)
    /\ pc' = "done"
    /\ UNCHANGED <<plan, options, fs, idx, result, appliedChanges, backupPath,
                   rbq, trace, fs0, run>>
    /\ UNCHANGED others

\* lines 63-71
SkipEntry ==
    /\ pc = "loop"
    /\ idx <= Len(plan)
    /\ entry.action = "skip"
    /\ result' = [result EXCEPT !.skipped = @ + 1]
    /\ idx' = idx + 1
    /\ UNCHANGED <<plan, options, fs, pc, appliedChanges, backupPath, rbq,
                   trace, fs0, run>>
    /\ UNCHANGED others

\* an unchanged destination that is passed over without being counted
SkipUnchanged_NotCounted ==
    /\ pc = "loop"
    /\ idx <= Len(plan)
    /\ entry.action # "skip"
    /\ \E readOk \in BOOLEAN :
         /\ Unchanged(readOk)
         /\ trace' = Append(trace, CheckOp(readOk))
    /\ idx' = idx + 1
    /\ UNCHANGED <<plan, options, fs, pc, result, appliedChanges, backupPath,
                   rbq, fs0, run>>
    /\ UNCHANGED others

\* lines 80-108
SkipUnchanged ==
    /\ pc = "loop"
    /\ idx <= Len(plan)
    /\ entry.action # "skip"
    /\ \E readOk \in BOOLEAN :
         /\ Unchanged(readOk)
         /\ trace' = Append(trace, CheckOp(readOk))
    /\ result' = [result EXCEPT !.skipped = @ + 1]
    /\ idx' = idx + 1
    /\ UNCHANGED <<plan, options, fs, pc, appliedChanges, backupPath, rbq,
                   fs0, run>>
    /\ UNCHANGED others

\* lines 110-119
DryRunPreview ==
    /\ pc = "loop"
    /\ idx <= Len(plan)
    /\ entry.action # "skip"
    /\ \E readOk \in BOOLEAN :
         /\ ~Unchanged(readOk)
         /\ trace' = Append(trace, CheckOp(readOk))
    /\ options.dryRun
    /\ result' = [result EXCEPT !.applied = @ + 1]
    /\ idx' = idx + 1
    /\ UNCHANGED <<plan, options, fs, pc, appliedChanges, backupPath, rbq,
                   fs0, run>>
    /\ UNCHANGED others

\* the try block entered without looking at options.dryRun
BeginTry_IgnoresDryRun ==
    /\ pc = "loop"
    /\ idx <= Len(plan)
    /\ entry.action # "skip"
    /\ \E readOk \in BOOLEAN :
         /\ ~Unchanged(readOk)
         /\ trace' = Append(trace, CheckOp(readOk))
    /\ backupPath' = NoPath
    /\ pc' = IF useSymlinks THEN "symlink" ELSE "backup"
    /\ UNCHANGED <<plan, options, fs, idx, result, appliedChanges, rbq, fs0,
                   run>>
    /\ UNCHANGED others

\* lines 121-123
BeginTry ==
    /\ pc = "loop"
    /\ idx <= Len(plan)
    /\ entry.action # "skip"
    /\ \E readOk \in BOOLEAN :
         /\ ~Unchanged(readOk)
         /\ trace' = Append(trace, CheckOp(readOk))
    /\ ~options.dryRun
    /\ backupPath' = NoPath
    /\ pc' = IF useSymlinks THEN "symlink" ELSE "backup"
    /\ UNCHANGED <<plan, options, fs, idx, result, appliedChanges, rbq, fs0,
                   run>>
    /\ UNCHANGED others

\* lines 125-133 with createBackup (fs.ts 107-116): the copy is made when the
\* file is there and copyFile succeeds; every failure yields null
CreateBackup ==
    /\ pc = "backup"
    /\ \E copyOk \in BOOLEAN :
         LET node == Node(fs, entry.targetPath)
             bak  == BackupOf(entry.targetPath)
         IN  IF node.kind = "file" /\ copyOk
               THEN /\ fs' = Put(fs, bak, node)
                    /\ backupPath' = bak
                    /\ result' = [result EXCEPT !.backups = Append(@, bak)]
                    /\ trace' = Append(trace, Op("backup", entry.targetPath))
               ELSE /\ backupPath' = NoPath
                    /\ UNCHANGED <<fs, result, trace>>
    /\ pc' = "write"
    /\ UNCHANGED <<plan, options, idx, appliedChanges, rbq, fs0, run>>
    /\ UNCHANGED others

\* the earlier, best-effort engine: count the failure and go on with the
\* next entry
Fail_Continues(kind) ==
    /\ result' = [result EXCEPT
                    !.errors = Append(@, [kind |-> kind, path |-> entry.targetPath]),
                    !.failed = @ + 1]
    /\ UNCHANGED <<appliedChanges, rbq>>
    /\ idx' = idx + 1
    /\ pc' = "loop"

\* the catch block, lines 169-175, and the verification failure, lines
\* 157-163: record the error and enter rollbackChanges, whose
\* changes.reverse() reverses appliedChanges in place
Fail(kind) ==
    /\ result' = [result EXCEPT
                    !.errors = Append(@, [kind |-> kind, path |-> entry.targetPath]),
                    !.failed = @ + 1]
    /\ appliedChanges' = Reverse(appliedChanges)
    /\ rbq' = Reverse(appliedChanges)
    /\ idx' = idx
    /\ pc' = "rollback"

\* line 143, writeFileSafe succeeds
WriteFile ==
    /\ pc = "write"
    /\ fs' = Put(fs, entry.targetPath, FileNode(transformedContent))
    /\ trace' = Append(trace, Op("write", entry.targetPath))
    /\ pc' = "verify"
    /\ UNCHANGED <<plan, options, idx, result, appliedChanges, backupPath,
                   rbq, fs0, run>>
    /\ UNCHANGED others

\* line 143, writeFileSafe returns but the file does not hold the text
WriteFileCorrupts ==
    /\ pc = "write"
    /\ fs' = Put(fs, entry.targetPath, FileNode(Truncated))
    /\ trace' = Append(trace, Op("write", entry.targetPath))
    /\ pc' = "verify"
    /\ UNCHANGED <<plan, options, idx, result, appliedChanges, backupPath,
                   rbq, fs0, run>>
    /\ UNCHANGED others

\* line 143, writeFileSafe throws: before touching the file (mkdir or open
\* failed) or after truncating it
WriteFileThrows ==
    /\ pc = "write"
    /\ \E touched \in BOOLEAN :
         fs' = IF touched THEN Put(fs, entry.targetPath, FileNode(Truncated))
               ELSE fs
    /\ trace' = Append(trace, Op("write", entry.targetPath))
    /\ Fail("write")
    /\ UNCHANGED <<plan, options, backupPath, fs0, run>>
    /\ UNCHANGED others

verifyFileHash(f, p, expectedContent, readOk) ==
    /\ readOk
    /\ Node(f, p).kind = "file"
    /\ hashContent(Node(f, p).content) = hashContent(expectedContent)

\* lines 151-168, verification succeeds
VerifyOk ==
    /\ pc = "verify"
    /\ \E readOk \in BOOLEAN :
         verifyFileHash(fs, entry.targetPath, transformedContent, readOk)
    /\ appliedChanges' = Append(appliedChanges,
            [targetPath |-> entry.targetPath, backupPath |-> backupPath])
    /\ result' = [result EXCEPT !.applied = @ + 1]
    /\ idx' = idx + 1
    /\ pc' = "loop"
    /\ trace' = Append(trace, Op("verify", entry.targetPath))
    /\ UNCHANGED <<plan, options, fs, backupPath, rbq, fs0, run>>
    /\ UNCHANGED others

\* lines 157-163
VerifyFails ==
    /\ pc = "verify"
    /\ \E readOk \in BOOLEAN :
         ~verifyFileHash(fs, entry.targetPath, transformedContent, readOk)
    /\ trace' = Append(trace, Op("verify", entry.targetPath))
    /\ Fail("verify")
    /\ UNCHANGED <<plan, options, fs, backupPath, fs0, run>>
    /\ UNCHANGED others

\* lines 135-141 and 167-168 with createSymlink (fs.ts 59-76)
CreateSymlink ==
    /\ pc = "symlink"
    /\ fs' = Put(fs, entry.targetPath, LinkNode(entry.asset.path))
    /\ appliedChanges' = Append(appliedChanges,
            [targetPath |-> entry.targetPath, backupPath |-> backupPath])
    /\ result' = [result EXCEPT !.applied = @ + 1]
    /\ idx' = idx + 1
    /\ pc' = "loop"
    /\ trace' = Append(trace, Op("symlink", entry.targetPath))
    /\ UNCHANGED <<plan, options, backupPath, rbq, fs0, run>>
    /\ UNCHANGED others

\* createSymlink throws: in mkdir, or in symlink after the old file or link
\* was unlinked
CreateSymlinkThrows ==
    /\ pc = "symlink"
    /\ \E unlinked \in BOOLEAN :
         fs' = IF unlinked /\ Node(fs, entry.targetPath).kind # "none"
                 THEN Put(fs, entry.targetPath, NoNode)
                 ELSE fs
    /\ trace' = Append(trace, Op("symlink", entry.targetPath))
    /\ Fail("write")
    /\ UNCHANGED <<plan, options, backupPath, fs0, run>>
    /\ UNCHANGED others

\* rollbackChanges line 187
RollbackNothing ==
    /\ pc = "rollback"
    /\ Len(appliedChanges) = 0
    /\ pc' = "done"
    /\ UNCHANGED <<plan, options, fs, idx, result, appliedChanges, backupPath,
                   rbq, trace, fs0, run>>
    /\ UNCHANGED others

\* restoreBackup (fs.ts 122-133)
restoreBackup(f, bak, restoreOk) == Node(f, bak).kind = "file" /\ restoreOk

RestoreOp(change, ok) ==
    [op |-> IF ok THEN "restore" ELSE "restore-failed",
     path |-> change.targetPath, entry |-> idx]

\* a rollback that gives up at the first restore that fails
RollbackStep_StopsAtFailure ==
    /\ pc = "rollback"
    /\ rbq # <<>>
    /\ LET change == Head(rbq)
       IN  IF change.backupPath # NoPath
             THEN \E restoreOk \in BOOLEAN :
                    IF restoreBackup(fs, change.backupPath, restoreOk)
                      THEN /\ fs' = Put(fs, change.targetPath,
                                        Node(fs, change.backupPath))
                           /\ trace' = Append(trace, RestoreOp(change, TRUE))
                           /\ rbq' = Tail(rbq)
                           /\ UNCHANGED result
                      ELSE /\ result' = [result EXCEPT !.errors =
                                  Append(@, [kind |-> "restore",
                                             path |-> change.targetPath])]
                           /\ trace' = Append(trace, RestoreOp(change, FALSE))
                           /\ rbq' = <<>>
                           /\ UNCHANGED fs
             ELSE rbq' = Tail(rbq) /\ UNCHANGED <<fs, result, trace>>
    /\ UNCHANGED <<plan, options, idx, pc, appliedChanges, backupPath, fs0,
                   run>>
    /\ UNCHANGED others

\* rollbackChanges lines 192-206, one iteration of the loop
RollbackStep ==
    /\ pc = "rollback"
    /\ rbq # <<>>
    /\ LET change == Head(rbq)
       IN  IF change.backupPath # NoPath
             THEN \E restoreOk \in BOOLEAN :
                    IF restoreBackup(fs, change.backupPath, restoreOk)
                      THEN /\ fs' = Put(fs, change.targetPath,
                                        Node(fs, change.backupPath))
                           /\ trace' = Append(trace, RestoreOp(change, TRUE))
                           /\ UNCHANGED result
                      ELSE /\ result' = [result EXCEPT !.errors =
                                  Append(@, [kind |-> "restore",
                                             path |-> change.targetPath])]
                           /\ trace' = Append(trace, RestoreOp(change, FALSE))
                           /\ UNCHANGED fs
             ELSE UNCHANGED <<fs, result, trace>>
    /\ rbq' = Tail(rbq)
    /\ UNCHANGED <<plan, options, idx, pc, appliedChanges, backupPath, fs0,
                   run>>
    /\ UNCHANGED others

\* rollbackChanges lines 208-209
RollbackComplete ==
    /\ pc = "rollback"
    /\ Len(appliedChanges) > 0
    /\ rbq = <<>>
    /\ result' = [result EXCEPT !.rolledBack = TRUE]
    /\ pc' = "done"
    /\ UNCHANGED <<plan, options, fs, idx, appliedChanges, backupPath, rbq,
                   trace, fs0, run>>
    /\ UNCHANGED others

Next ==
    \/ ReturnResult
    \/ SkipEntry
    \/ SkipUnchanged
    \/ DryRunPreview
    \/ BeginTry
    \/ CreateBackup
    \/ WriteFile
    \/ WriteFileCorrupts
    \/ WriteFileThrows
    \/ VerifyOk
    \/ VerifyFails
    \/ CreateSymlink
    \/ CreateSymlinkThrows
    \/ RollbackNothing
    \/ RollbackStep
    \/ RollbackComplete

----------------------------------------------------------------------------
(* Specification Spec: applyPlan run on any plan, from any filesystem *)

\* two commands that two clients hold under the same relative path
SrcModel ==
    [client |-> "project", type |-> "commands",
     path |-> <<"project", "commands", "x.md">>,
     relativePath |-> <<"commands", "x.md">>,
     canonicalPath |-> <<"commands", "x.md">>,
     content |-> [body |-> "foo", keys |-> {"model"}],
     hash |-> hashContent([body |-> "foo", keys |-> {"model"}])]

SrcBar ==
    [client |-> "windsurf", type |-> "commands",
     path |-> <<"windsurf", "commands", "x.md">>,
     relativePath |-> <<"commands", "x.md">>,
     canonicalPath |-> <<"commands", "x.md">>,
     content |-> [body |-> "bar", keys |-> {}],
     hash |-> hashContent([body |-> "bar", keys |-> {}])]

SampleAssets == {SrcModel, SrcBar}

SampleTargets == {"claude", "cursor"}

DestOf(client) == Root(client) \o <<"commands", "x.md">>

SampleDests == { DestOf(c) : c \in SampleTargets }

\* what a destination may hold before the run
SampleTexts == { [body |-> "foo", keys |-> {}], [body |-> "bar", keys |-> {}] }

StaleBackup == FileNode([body |-> "old", keys |-> {}])

DestNodes(link) ==
    {NoNode} \cup { FileNode(t) : t \in SampleTexts }
      \cup (IF link THEN { LinkNode(a.path) : a \in SampleAssets } ELSE {})

\* the plan entries for a filesystem: create for an absent destination,
\* update for a present one, or skip
EntriesFor(f) ==
    { [asset |-> a, targetClient |-> c, targetPath |-> DestOf(c), action |-> act] :
        a \in SampleAssets, c \in SampleTargets, act \in {"create", "update", "skip"} }

ActionFits(f, e) ==
    \/ e.action = "skip"
    \/ e.action = "create" /\ Node(f, e.targetPath).kind = "none"
    \/ e.action = "update" /\ Node(f, e.targetPath).kind # "none"

\* a backup left behind by an earlier run may sit next to one destination
InitFs(link) ==
    { f \in [SampleDests \cup {BackupOf(DestOf("claude"))} ->
               DestNodes(link) \cup {StaleBackup}] :
        /\ \A d \in SampleDests : f[d] \in DestNodes(link)
        /\ f[BackupOf(DestOf("claude"))] \in {NoNode, StaleBackup} }

NoMcp ==
    [phase |-> "off", configs |-> <<>>, assets |-> <<>>,
     merged |-> [isNull |-> TRUE], out |-> [kind |-> "null"], format |-> "unknown"]

Init ==
    /\ options \in { Options(d, l, "merge", "", {}) : d \in BOOLEAN, l \in BOOLEAN }
    /\ fs \in InitFs(options.link)
    /\ plan \in { p \in SeqsUpTo(EntriesFor(fs), MaxPlan) :
                    \A i \in 1..Len(p) : ActionFits(fs, p[i]) }
    /\ idx = 1
    /\ pc = "loop"
    /\ result = EmptyResult
    /\ appliedChanges = <<>>
    /\ backupPath = NoPath
    /\ rbq = <<>>
    /\ trace = <<>>
    /\ fs0 = fs
    /\ run = 1
    /\ mcp = NoMcp
    /\ discovered = <<>>
    /\ prev = NoRun
    /\ answers = NoAnswers
    /\ assetConflicts = <<>>
    /\ desiredMap = <<>>
    /\ mtime = NoMtime
    /\ pathCase = NoPathCase

Spec == Init /\ [][Next]_vars

----------------------------------------------------------------------------
(* Specification SpecRollback: rollbackChanges called by applyPlan after an  *)
(* entry of a longer plan has failed in copy mode                            *)

MaxChanges == 3

RollbackClients == <<"claude", "cursor", "project", "windsurf", "cline">>

\* the destinations of the entries applied before the failure, in plan
\* order: distinct files, each written with or without a backup
AppliedLists ==
    { c \in UNION { [1..n -> { [targetPath |-> DestOf(RollbackClients[k]),
                                backupPath |-> b] :
                                 k \in 1..(MaxChanges + 1),
                                 b \in {TRUE, FALSE} }] : n \in 0..MaxChanges } :
        \A i, j \in 1..Len(c) : i # j => c[i].targetPath # c[j].targetPath }

AppliedChange(c) ==
    [targetPath |-> c.targetPath,
     backupPath |-> IF c.backupPath THEN BackupOf(c.targetPath) ELSE NoPath]

FailingDest == DestOf("codex")

\* the state in which applyPlan calls rollbackChanges: the applied entries
\* are written, their backups hold the earlier texts, the failure is counted
InitRollback ==
    \E c \in AppliedLists :
      LET changes == [i \in 1..Len(c) |-> AppliedChange(c[i])]
          backups == SelectSeq(changes, LAMBDA ch : ch.backupPath # NoPath)
      IN  /\ options = Options(FALSE, FALSE, "merge", "", {})
          /\ plan = [i \in 1..(Len(c) + 1) |->
                       [asset |-> SrcModel,
                        targetClient |-> IF i <= Len(c) THEN c[i].targetPath[1]
                                         ELSE "codex",
                        targetPath |-> IF i <= Len(c) THEN c[i].targetPath
                                       ELSE FailingDest,
                        action |-> IF i <= Len(c) /\ c[i].backupPath
                                     THEN "update" ELSE "create"]]
          /\ fs = [p \in { changes[i].targetPath : i \in 1..Len(changes) }
                          \cup { BackupOf(changes[i].targetPath) : i \in 1..Len(changes) }
                          \cup {FailingDest} |->
                     IF p = FailingDest THEN FileNode(Truncated)
                     ELSE IF \E i \in 1..Len(changes) : p = changes[i].targetPath
                       THEN FileNode(transformContentForClient(
                                SrcModel.content, p[1], SrcModel.type))
                     ELSE IF \E i \in 1..Len(changes) : p = changes[i].backupPath
                       THEN FileNode([body |-> "bar", keys |-> {}])
                     ELSE NoNode]
          /\ idx = Len(c) + 1
          /\ pc = "rollback"
          /\ result = [EmptyResult EXCEPT
                         !.applied = Len(c),
                         !.failed = 1,
                         !.backups = [i \in 1..Len(backups) |-> backups[i].backupPath],
                         !.errors = <<[kind |-> "write", path |-> FailingDest]>>]
          /\ appliedChanges = Reverse(changes)
          /\ rbq = Reverse(changes)
          /\ backupPath = NoPath
          /\ trace = <<>>
          /\ fs0 = fs
          /\ run = 1
          /\ mcp = NoMcp
          /\ discovered = <<>>
          /\ prev = NoRun
          /\ answers = NoAnswers
          /\ assetConflicts = <<>>
          /\ desiredMap = <<>>
          /\ mtime = NoMtime
          /\ pathCase = NoPathCase

NextRollback ==
    \/ RollbackNothing
    \/ RollbackStep
    \/ RollbackComplete

SpecRollback == InitRollback /\ [][NextRollback]_vars

----------------------------------------------------------------------------
(* MCP configs: codec and merger (mcp.ts) *)

MaxConfigs == 3
MaxAssets == 3

EmptyMap == [k \in {} |-> k]

\* { ...a, ...b }
Spread(a, b) ==
    [k \in (DOMAIN a) \cup (DOMAIN b) |-> IF k \in DOMAIN b THEN b[k] ELSE a[k]]

\* McpConfig: the server mapping (absent when hasServers is false) and the
\* other top-level keys.  isNull marks the null a failed parse returns.
Config(servers, top) ==
    [isNull |-> FALSE, hasServers |-> TRUE, mcpServers |-> servers, top |-> top]

ConfigWithoutServers(top) ==
    [isNull |-> FALSE, hasServers |-> FALSE, mcpServers |-> EmptyMap, top |-> top]

NullConfig ==
    [isNull |-> TRUE, hasServers |-> FALSE, mcpServers |-> EmptyMap, top |-> EmptyMap]

\* one step of the loop of mergeMcpConfigs, lines 243-258
MergeOne(merged, config) ==
    [merged EXCEPT
       !.mcpServers = IF config.hasServers THEN Spread(@, config.mcpServers) ELSE @,
       !.top = Spread(@, config.top)]

RECURSIVE MergeFrom(_, _)
MergeFrom(merged, configs) ==
    IF configs = <<>> THEN merged
    ELSE MergeFrom(MergeOne(merged, Head(configs)), Tail(configs))

\* a merger that combines the fields of same-named servers
RECURSIVE DeepMergeFrom(_, _)
DeepMergeFrom(merged, configs) ==
    IF configs = <<>> THEN merged
    ELSE LET c == Head(configs)
             servers ==
                 [n \in (DOMAIN merged.mcpServers) \cup (DOMAIN c.mcpServers) |->
                    IF n \in DOMAIN c.mcpServers /\ n \in DOMAIN merged.mcpServers
                      THEN Spread(merged.mcpServers[n], c.mcpServers[n])
                    ELSE IF n \in DOMAIN c.mcpServers THEN c.mcpServers[n]
                    ELSE merged.mcpServers[n]]
         IN  DeepMergeFrom([merged EXCEPT !.mcpServers = servers,
                                          !.top = Spread(@, c.top)],
                           Tail(configs))

mergeMcpConfigs_PerField(configs) == DeepMergeFrom(Config(EmptyMap, EmptyMap), configs)

mergeMcpConfigs(configs) == MergeFrom(Config(EmptyMap, EmptyMap), configs)

----------------------------------------------------------------------------
(* MCP values and their TOML, YAML and JSON spellings (mcp.ts) *)

\* A text is a sequence of tokens: a token is one special character (quote,
\* bracket, brace, comma, colon, space, backslash), the comment opener "//",
\* or a run of other characters.
Q == "\""

\* The values of a server config.  All carry the same fields so that any two
\* can be compared: s is the text of a string, number, boolean or of a value
\* not yet parsed; items the elements of an array; map the entries of an
\* object.
Str(s) == [t |-> "string", s |-> s, items |-> <<>>, map |-> EmptyMap]
Arr(items) == [t |-> "array", s |-> <<>>, items |-> items, map |-> EmptyMap]
Obj(map) == [t |-> "object", s |-> <<>>, items |-> <<>>, map |-> map]
Bool(s) == [t |-> "boolean", s |-> s, items |-> <<>>, map |-> EmptyMap]
Num(s) == [t |-> "number", s |-> s, items |-> <<>>, map |-> EmptyMap]
Raw(s) == [t |-> "raw", s |-> s, items |-> <<>>, map |-> EmptyMap]

\* String.prototype.trim
RECURSIVE Trim(_)
Trim(s) ==
    IF s = <<>> THEN s
    ELSE IF Head(s) = " " THEN Trim(Tail(s))
    ELSE IF s[Len(s)] = " " THEN Trim(SubSeq(s, 1, Len(s) - 1))
    ELSE s

\* String.prototype.split(sep): the pieces between the separators, one
\* (empty) piece for the empty text
RECURSIVE SplitAt(_, _, _)
SplitAt(s, sep, piece) ==
    IF s = <<>> THEN <<piece>>
    ELSE IF Head(s) = sep THEN <<piece>> \o SplitAt(Tail(s), sep, <<>>)
    ELSE SplitAt(Tail(s), sep, Append(piece, Head(s)))

Split(s, sep) == SplitAt(s, sep, <<>>)

\* Array.prototype.join of texts
RECURSIVE JoinTexts(_, _)
JoinTexts(texts, sep) ==
    IF texts = <<>> THEN <<>>
    ELSE IF Len(texts) = 1 THEN texts[1]
    ELSE texts[1] \o sep \o JoinTexts(Tail(texts), sep)

\* value.slice(1, -1)
Slice1(s) == SubSeq(s, 2, Len(s) - 1)

StartsWith(s, c) == s # <<>> /\ Head(s) = c
EndsWith(s, c) == s # <<>> /\ s[Len(s)] = c

\* /^-?\d+(\.\d+)?$/ on the sample texts
NumberTexts == {<<"8080">>}

\* JSON.stringify of a string: quotes around it, quotes and backslashes in it
\* escaped
RECURSIVE EscapeJson(_)
EscapeJson(s) ==
    IF s = <<>> THEN <<>>
    ELSE (IF Head(s) \in {Q, "\\"} THEN <<"\\", Head(s)>> ELSE <<Head(s)>>)
           \o EscapeJson(Tail(s))

\* JSON.stringify(value) without indentation, as serializeTomlValue and
\* serializeYamlValue call it for an object of strings
RECURSIVE JsonEntries(_, _)
JsonEntries(map, keys) ==
    IF keys = <<>> THEN <<>>
    ELSE <<<<Q, Head(keys), Q, ":", Q>> \o EscapeJson(map[Head(keys)].s) \o <<Q>>>>
           \o JsonEntries(map, Tail(keys))

JsonStringify(value) ==
    <<"{">> \o JoinTexts(JsonEntries(value.map, SetToSeq(DOMAIN value.map)), <<",">>)
            \o <<"}">>

\* String(value) for a number or boolean
StringOf(value) == value.s

RECURSIVE serializeTomlValue(_)
serializeTomlValue(value) ==
    CASE value.t = "string" -> <<Q>> \o value.s \o <<Q>>
      [] value.t = "array" ->
           <<"[">> \o JoinTexts([i \in 1..Len(value.items) |->
                                   serializeTomlValue(value.items[i])], <<",", " ">>)
                   \o <<"]">>
      [] value.t = "object" -> JsonStringify(value)
      [] OTHER -> StringOf(value)

RECURSIVE parseTomlValue(_)
parseTomlValue(text) ==
    LET value == Trim(text)
    IN  IF StartsWith(value, Q) /\ EndsWith(value, Q) THEN Str(Slice1(value))
        ELSE IF StartsWith(value, "[") /\ EndsWith(value, "]")
          THEN LET parts == Split(Slice1(value), ",")
               IN  Arr([i \in 1..Len(parts) |-> parseTomlValue(parts[i])])
        ELSE IF value \in {<<"true">>, <<"false">>} THEN Bool(value)
        ELSE IF value \in NumberTexts THEN Num(value)
        ELSE Str(value)

serializeYamlValue(value) ==
    CASE value.t = "string" -> <<Q>> \o value.s \o <<Q>>
      [] value.t = "array" ->
           <<"[">> \o JoinTexts([i \in 1..Len(value.items) |->
                                   <<Q>> \o StringOf(value.items[i]) \o <<Q>>],
                                <<",", " ">>)
                   \o <<"]">>
      [] value.t = "object" -> JsonStringify(value)
      [] OTHER -> StringOf(value)

\* v.trim().replace(/^["']|["']$/g, ""): one quote off the start and one off
\* the end, each only if it is there
StripQuotes(text) ==
    LET v == Trim(text)
        a == IF v # <<>> /\ Head(v) \in {Q, "'"} THEN Tail(v) ELSE v
    IN  IF a # <<>> /\ a[Len(a)] \in {Q, "'"} THEN SubSeq(a, 1, Len(a) - 1) ELSE a

parseYamlValue(text) ==
    LET value == Trim(text)
    IN  IF value = <<>> THEN Str(<<>>)
        ELSE IF StartsWith(value, "[") /\ EndsWith(value, "]")
          THEN LET parts == Split(Slice1(value), ",")
               IN  Arr([i \in 1..Len(parts) |-> Str(StripQuotes(parts[i]))])
        ELSE IF \/ StartsWith(value, Q) /\ EndsWith(value, Q)
                \/ StartsWith(value, "'") /\ EndsWith(value, "'")
          THEN Str(Slice1(value))
        ELSE IF value \in {<<"true">>, <<"false">>} THEN Bool(value)
        ELSE IF value \in NumberTexts THEN Num(value)
        ELSE Str(value)

----------------------------------------------------------------------------
(* MCP config texts (mcp.ts) *)

\* A config text: the syntax it is written in and the config it spells; in
\* a TOML or YAML text every value is the raw text to the right of its key.
\* "jsonc" is JSON with comments, "json-null" the JSON literal null, "junk"
\* text with no structure any parser recognises, "blank" empty or
\* whitespace-only text.
Text(syn, cfg) == [syn |-> syn, cfg |-> cfg]

BlankText == Text("blank", Config(EmptyMap, EmptyMap))
JunkText == Text("junk", Config(EmptyMap, EmptyMap))
JsonNullText == Text("json-null", NullConfig)

\* the "\n\n---\n\n" between concatenated texts
Separator == Text("separator", Config(EmptyMap, EmptyMap))

\* file names of MCP configs and their lower-cased extensions
McpFileExt ==
    [f \in {"mcp.json", "opencode.jsonc", "config.toml", "CONFIG.YML", "servers.txt"} |->
       CASE f = "mcp.json" -> ".json"
         [] f = "opencode.jsonc" -> ".jsonc"
         [] f = "config.toml" -> ".toml"
         [] f = "CONFIG.YML" -> ".yml"
         [] OTHER -> ".txt"]

detectMcpFormat(filePath) ==
    LET lower == McpFileExt[Last(filePath)]
    IN  CASE lower = ".json" -> "json"
          [] lower = ".jsonc" -> "jsonc"
          [] lower = ".toml" -> "toml"
          [] lower \in {".yaml", ".yml"} -> "yaml"
          [] OTHER -> "unknown"

\* the "key = value" lines serializeToml writes under each server
TomlLines(servers) ==
    [n \in DOMAIN servers |->
       [k \in DOMAIN servers[n] |-> Raw(serializeTomlValue(servers[n][k]))]]

\* the values parseToml reads from the lines under each server
TomlValues(servers) ==
    [n \in DOMAIN servers |->
       [k \in DOMAIN servers[n] |-> parseTomlValue(servers[n][k].s)]]

\* the "key: value" lines serializeYaml writes under each server
YamlLines(servers) ==
    [n \in DOMAIN servers |->
       [k \in DOMAIN servers[n] |-> Raw(serializeYamlValue(servers[n][k]))]]

\* the values parseYaml reads from the lines under each server
YamlValues(servers) ==
    [n \in DOMAIN servers |->
       [k \in DOMAIN servers[n] |-> parseYamlValue(servers[n][k].s)]]

\* the text of a string holds the opener of a line comment
HasLineComment(value) ==
    \/ \E i \in 1..Len(value.s) : value.s[i] = "//"
    \/ \E i \in 1..Len(value.items) :
         \E j \in 1..Len(value.items[i].s) : value.items[i].s[j] = "//"
    \/ \E k \in DOMAIN value.map :
         \E j \in 1..Len(value.map[k].s) : value.map[k].s[j] = "//"

\* parseJsonWithComments: content.replace(/\/\/.*$/gm, "") cuts every line
\* from "//" on, inside strings too; JSON.stringify with an indent puts each
\* property and each array item on a line of its own, so the cut takes the
\* closing quote with it and JSON.parse throws.  Block comments are not
\* modelled.
parseJsonWithComments(content) ==
    IF \E n \in DOMAIN content.cfg.mcpServers :
         \E k \in DOMAIN content.cfg.mcpServers[n] :
            HasLineComment(content.cfg.mcpServers[n][k])
      THEN NullConfig
      ELSE content.cfg

\* parseToml: a [mcpServers.name] section per server, key = value lines
\* under it; lines it does not recognise are skipped, so text in another
\* syntax leaves the empty server mapping
parseToml(content) ==
    IF content.syn = "toml"
      THEN Config(TomlValues(content.cfg.mcpServers), EmptyMap)
      ELSE Config(EmptyMap, EmptyMap)

\* serializeToml writes the servers only and trims: no server, empty text
serializeToml(config) ==
    IF config.hasServers /\ DOMAIN config.mcpServers # {}
      THEN Text("toml", Config(TomlLines(config.mcpServers), EmptyMap))
      ELSE BlankText

\* parseYaml: "name:" lines two spaces in, "key: value" lines under them
parseYaml(content) ==
    IF content.syn = "yaml"
      THEN Config(YamlValues(content.cfg.mcpServers), EmptyMap)
      ELSE Config(EmptyMap, EmptyMap)

\* serializeYaml writes the servers under a "mcpServers:" line
serializeYaml(config) ==
    Text("yaml", Config(IF config.hasServers
                          THEN YamlLines(config.mcpServers)
                          ELSE EmptyMap, EmptyMap))

\* the catch of parseMcpConfig turns a throw of a parser into null
parseMcpConfig(content, format) ==
    IF content.syn = "blank" THEN Config(EmptyMap, EmptyMap)
    ELSE CASE format \in {"json", "jsonc"} ->
                IF content.syn \in {"json", "jsonc", "json-null"}
                  THEN parseJsonWithComments(content) ELSE NullConfig
           [] format = "toml" -> parseToml(content)
           [] format = "yaml" -> parseYaml(content)
           [] OTHER -> NullConfig

serializeMcpConfig(config, format) ==
    CASE format = "toml" -> serializeToml(config)
      [] format = "yaml" -> serializeYaml(config)
      [] OTHER -> Text("json", config)

\* what mergeMcpAssets returns: null, one text, or raw texts joined by the
\* separator
NullOut == [kind |-> "null", parts |-> <<>>]
TextOut(t) == [kind |-> "text", parts |-> <<t>>]
ConcatOut(ps) == [kind |-> "concat", parts |-> ps]

RECURSIVE Join(_, _)
Join(texts, sep) ==
    IF Len(texts) <= 1 THEN texts
    ELSE <<Head(texts), sep>> \o Join(Tail(texts), sep)

ParsedOf(asset) == parseMcpConfig(asset.content, detectMcpFormat(asset.path))

Parses(asset) == ~ParsedOf(asset).isNull

\* the loop of lines 274-284: the configs that parsed, in order
RECURSIVE ParsedConfigs(_)
ParsedConfigs(assets) ==
    IF assets = <<>> THEN <<>>
    ELSE (IF Parses(Head(assets)) THEN <<ParsedOf(Head(assets))>> ELSE <<>>)
           \o ParsedConfigs(Tail(assets))

\* targetFormat: "json" until the first config is pushed, then the format of
\* the asset that config came from
RECURSIVE TargetFormat(_)
TargetFormat(assets) ==
    IF assets = <<>> THEN "json"
    ELSE IF Parses(Head(assets)) THEN detectMcpFormat(Head(assets).path)
    ELSE TargetFormat(Tail(assets))

\* a merger that gives up when nothing parses
mergeMcpAssets_NullWhenNoneParses(assets) ==
    IF Len(assets) = 0 THEN NullOut
    ELSE IF Len(assets) = 1 THEN TextOut(assets[1].content)
    ELSE IF ParsedConfigs(assets) = <<>> THEN NullOut
    ELSE TextOut(serializeMcpConfig(mergeMcpConfigs(ParsedConfigs(assets)),
                                    TargetFormat(assets)))

mergeMcpAssets(assets) ==
    IF Len(assets) = 0 THEN NullOut
    ELSE IF Len(assets) = 1 THEN TextOut(assets[1].content)
    ELSE IF ParsedConfigs(assets) = <<>>
      THEN ConcatOut(Join([i \in 1..Len(assets) |-> assets[i].content], Separator))
    ELSE TextOut(serializeMcpConfig(mergeMcpConfigs(ParsedConfigs(assets)),
                                    TargetFormat(assets)))

----------------------------------------------------------------------------
(* Specification SpecMcp: the merger applied to lists of configs and assets *)

SrvNpx ==
    [command |-> Str(<<"npx">>), args |-> Arr(<<Str(<<"-y">>), Str(<<"server-filesystem">>)>>)]
SrvGh == [command |-> Str(<<"gh">>)]
\* a server that is given the address of a host in its environment
SrvUrl ==
    [command |-> Str(<<"gh">>), args |-> Arr(<<>>),
     env |-> Obj([URL |-> Str(<<"http:", "//", "host">>)])]

ServerNames == {"fs", "gh"}

ServerMaps == UNION { [S -> {SrvNpx, SrvGh}] : S \in SUBSET ServerNames }

TopMaps == {EmptyMap, [theme |-> "dark"]}

SampleConfigs ==
    { Config(m, t) : m \in ServerMaps, t \in TopMaps }
      \cup { ConfigWithoutServers(t) : t \in TopMaps }

SampleMcpTexts ==
    { Text("json", Config([fs |-> SrvNpx], [theme |-> "dark"])),
      serializeMcpConfig(Config([fs |-> SrvGh], EmptyMap), "toml"),
      serializeMcpConfig(Config([gh |-> SrvNpx], EmptyMap), "yaml"),
      Text("json", Config([web |-> SrvUrl], EmptyMap)),
      JunkText, JsonNullText, BlankText }

McpAsset(file, text) ==
    [client |-> "project", type |-> "mcp", path |-> <<"project", file>>,
     content |-> text]

SampleMcpFiles == {"mcp.json", "config.toml", "CONFIG.YML", "servers.txt"}

SampleMcpAssets ==
    { McpAsset(f, t) : f \in SampleMcpFiles, t \in SampleMcpTexts }

\* servers that carry a command, an argument list and an environment
CodecArgs ==
    { Arr(<<>>), Arr(<<Str(<<"-y">>)>>), Arr(<<Str(<<"a", ",", "b">>)>>) }

CodecEnvs ==
    { Obj(EmptyMap), Obj([KEY |-> Str(<<"v">>)]),
      Obj([URL |-> Str(<<"http:", "//", "host">>)]) }

CodecServers ==
    { [command |-> Str(<<"gh">>), args |-> a, env |-> e] :
        a \in CodecArgs, e \in CodecEnvs }

CodecConfigs ==
    { Config(EmptyMap, EmptyMap), Config([gh |-> SrvGh], EmptyMap),
      Config([fs |-> SrvNpx], EmptyMap) }
      \cup { Config([fs |-> srv], EmptyMap) : srv \in CodecServers }

McpFormats == {"json", "jsonc", "toml", "yaml", "unknown"}

McpInit ==
    \/ mcp \in { [phase |-> "configs", configs |-> cs, assets |-> <<>>,
                  merged |-> NullConfig, out |-> NullOut, format |-> "unknown"] :
                   cs \in SeqsUpTo(SampleConfigs, MaxConfigs) }
    \/ mcp \in { [phase |-> "assets", configs |-> <<>>, assets |-> as,
                  merged |-> NullConfig, out |-> NullOut, format |-> "unknown"] :
                   as \in SeqsUpTo(SampleMcpAssets, MaxAssets) }
    \/ mcp \in { [phase |-> "config", configs |-> <<c>>, assets |-> <<>>,
                  merged |-> NullConfig, out |-> NullOut, format |-> f] :
                   c \in CodecConfigs, f \in McpFormats }
    \/ mcp \in { [phase |-> "text", configs |-> <<>>, assets |-> <<>>,
                  merged |-> NullConfig, out |-> TextOut(t), format |-> f] :
                   t \in SampleMcpTexts, f \in McpFormats }

InitMcp ==
    /\ McpInit
    /\ options = Options(FALSE, FALSE, "merge", "", {})
    /\ fs = EmptyMap
    /\ plan = <<>>
    /\ idx = 1
    /\ pc = "off"
    /\ result = EmptyResult
    /\ appliedChanges = <<>>
    /\ backupPath = NoPath
    /\ rbq = <<>>
    /\ trace = <<>>
    /\ fs0 = EmptyMap
    /\ run = 0
    /\ discovered = <<>>
    /\ prev = NoRun
    /\ answers = NoAnswers
    /\ assetConflicts = <<>>
    /\ desiredMap = <<>>
    /\ mtime = NoMtime
    /\ pathCase = NoPathCase

MergeMcpConfigs ==
    /\ mcp.phase = "configs"
    /\ mcp' = [mcp EXCEPT !.phase = "configs-merged",
                          !.merged = mergeMcpConfigs(mcp.configs)]
    /\ UNCHANGED <<applyVars, discovered, prev, answers, flowVars>>

MergeMcpAssets ==
    /\ mcp.phase = "assets"
    /\ mcp' = [mcp EXCEPT !.phase = "assets-merged",
                          !.out = mergeMcpAssets(mcp.assets)]
    /\ UNCHANGED <<applyVars, discovered, prev, answers, flowVars>>

\* serializeMcpConfig(config, format)
SerializeMcpConfig ==
    /\ mcp.phase = "config"
    /\ mcp' = [mcp EXCEPT !.phase = "serialized",
                          !.out = TextOut(serializeMcpConfig(mcp.configs[1], mcp.format))]
    /\ UNCHANGED <<applyVars, discovered, prev, answers, flowVars>>

\* parseMcpConfig(content, format), of a text just serialized in that format
\* or of a text from a file
ParseMcpConfig ==
    /\ mcp.phase \in {"serialized", "text"}
    /\ mcp' = [mcp EXCEPT !.phase = IF mcp.phase = "text" THEN "parsed"
                                    ELSE "round-trip",
                          !.merged = parseMcpConfig(mcp.out.parts[1], mcp.format)]
    /\ UNCHANGED <<applyVars, discovered, prev, answers, flowVars>>

NextMcp ==
    \/ MergeMcpConfigs
    \/ MergeMcpAssets
    \/ SerializeMcpConfig
    \/ ParseMcpConfig

SpecMcp == InitMcp /\ [][NextMcp]_vars

----------------------------------------------------------------------------
(* Client definitions (definitions.ts) and discovery (discovery.ts) *)

\* glob patterns: Tree(dir, exts) is dir/**/*.ext for each ext (every file
\* when exts is empty, dir/**), Named(dir, name) is dir/**/name, File(name)
\* is a literal name at the root
Tree(dir, exts) == [kind |-> "tree", dir |-> dir, exts |-> exts, name |-> ""]
Named(dir, name) == [kind |-> "named", dir |-> dir, exts |-> {}, name |-> name]
File(name) == [kind |-> "file", dir |-> "", exts |-> {}, name |-> name]

MdStems ==
    {"x", "b", "a-b", "..\\..\\x", "a\\b", "AGENTS", "CLAUDE", "SKILL", "command",
     "x-claude", "x-cursor"}

\* the extension of a file name of the model
ExtOf(name) ==
    IF \E s \in MdStems : name = s \o ".md" THEN ".md"
    ELSE IF name = "config.toml" THEN ".toml"
    ELSE IF name \in {"mcp.json", ".mcp.json"} THEN ".json"
    ELSE ""

GlobMatches(pattern, rel) ==
    CASE pattern.kind = "file" -> rel = <<pattern.name>>
      [] pattern.kind = "named" ->
           Len(rel) >= 2 /\ rel[1] = pattern.dir /\ Last(rel) = pattern.name
      [] OTHER ->
           /\ Len(rel) >= 2
           /\ rel[1] = pattern.dir
           /\ (pattern.exts = {} \/ ExtOf(Last(rel)) \in pattern.exts)

AssetDef(type, patterns, files) ==
    [type |-> type, patterns |-> patterns, files |-> files]

DEFAULT_PATTERNS ==
    [agents |-> {File("AGENTS.md"), File("CLAUDE.md")},
     commands |-> {Tree("commands", {".md"})},
     rules |-> {Tree("rules", {".md", ".mdc", ".rules"})},
     skills |-> {Tree("skills", {})}]

\* the entries of buildClientDefinitions for the clients of the model
ProjectDef ==
    [name |-> "project", root |-> Root("project"),
     assets |-> << AssetDef("agents", DEFAULT_PATTERNS.agents, <<>>),
                   AssetDef("commands", DEFAULT_PATTERNS.commands, <<>>),
                   AssetDef("rules", DEFAULT_PATTERNS.rules, <<>>),
                   AssetDef("skills", DEFAULT_PATTERNS.skills, <<>>),
                   AssetDef("mcp", {}, << <<".cursor", "mcp.json">>, <<".mcp.json">> >>) >>]

CodexDef ==
    [name |-> "codex", root |-> Root("codex"),
     assets |-> << AssetDef("agents", {File("AGENTS.md")}, <<>>),
                   AssetDef("commands", {Tree("prompts", {".md"})}, <<>>),
                   AssetDef("rules", {Tree("rules", {".rules"})}, <<>>),
                   AssetDef("skills", {Named("skills", "SKILL.md")}, <<>>),
                   AssetDef("mcp", {}, << <<"config.toml">> >>) >>]

ClaudeDef ==
    [name |-> "claude", root |-> Root("claude"),
     assets |-> << AssetDef("agents", {Tree("agents", {".md"}), File("CLAUDE.md")}, <<>>),
                   AssetDef("commands", {Tree("commands", {".md"})}, <<>>),
                   AssetDef("rules", {Tree("rules", {".md"})}, <<>>),
                   AssetDef("skills", {Named("skills", "SKILL.md")}, <<>>),
                   AssetDef("mcp", {}, <<>>) >>]

CursorDef ==
    [name |-> "cursor", root |-> Root("cursor"),
     assets |-> << AssetDef("agents", {File("AGENTS.md"), Tree("agents", {".md"})}, <<>>),
                   AssetDef("commands", {Tree("commands", {".md"})}, <<>>),
                   AssetDef("rules", {Tree("rules", {".md", ".mdc"})}, <<>>),
                   AssetDef("skills", {}, <<>>),
                   AssetDef("mcp", {}, << <<"mcp.json">> >>) >>]

buildClientDefinitions == <<ProjectDef, CodexDef, ClaudeDef, CursorDef>>

CLIENT_ORDER ==
    <<"project", "codex", "claude", "claudeDesktop", "cursor", "windsurf",
      "cline", "roo", "gemini", "opencode", "vscode", "antigravity", "goose",
      "mcphub", "cherrystudio">>

\* where a path leads once the symbolic links on it are followed
RECURSIVE FollowLinks(_, _, _)
FollowLinks(f, p, fuel) ==
    IF Node(f, p).kind = "link" /\ fuel > 0
      THEN FollowLinks(f, Node(f, p).target, fuel - 1)
      ELSE Normalize(p)

\* the regular file a path leads to, or NoNode
FileAt(f, p) ==
    LET node == Node(f, FollowLinks(f, p, Cardinality(DOMAIN f)))
    IN  IF node.kind = "file" THEN node ELSE NoNode

\* fileExists: fs.access, which follows links
fileExists(f, p) == Node(f, FollowLinks(f, p, Cardinality(DOMAIN f))).kind # "none"

\* classifyCursorRule(content)?.alwaysApply === false
AlwaysApplyFalse(content) == "alwaysApply-false" \in content.keys

buildCursorConditionalCanonicalPath(relativePath) ==
    LET normalized == normalizeRelativePath(relativePath)
    IN  PosixJoin(<<"skills", "cursor-rules">>
                    \o Drop(normalized, IF normalized # <<>> /\ normalized[1] = "rules"
                                          THEN 1 ELSE 0))

\* lines 47-79: the asset read from one matched file
\* the piece of a name before its last dot and the piece from that dot on
HasDot(name) == ExtOf(name) # "" \/ name \in {".", ".."}

StemOf(name) ==
    IF \E s \in MdStems : name = s \o ".md"
      THEN CHOOSE s \in MdStems : name = s \o ".md"
    ELSE IF name = "config.toml" THEN "config"
    ELSE IF name = "mcp.json" THEN "mcp"
    ELSE IF name = ".mcp.json" THEN ".mcp"
    ELSE IF name = ".." THEN "."
    ELSE ""

LastExt(name) == IF name \in {".", ".."} THEN "." ELSE ExtOf(name)

\* deriveAssetName: the path below the root without the extension of the
\* file
deriveAssetName(root, absPath) ==
    LET segments == normalizeRelativePath(Drop(absPath, Len(root)))
    IN  [segments EXCEPT ![Len(segments)] = StemOf(@)]

AssetAt(f, def, type, absPath) ==
    LET content == FileAt(f, absPath).content
        normalizedRelative == normalizeRelativePath(Drop(absPath, Len(def.root)))
    IN  [client |-> def.name, type |-> type, path |-> absPath,
         relativePath |-> normalizedRelative,
         canonicalPath |->
            IF def.name = "cursor" /\ type = "rules" /\ AlwaysApplyFalse(content)
              THEN buildCursorConditionalCanonicalPath(normalizedRelative)
              ELSE canonicalizeRelativePath(def.name, type, normalizedRelative),
         name |-> deriveAssetName(def.root, absPath),
         content |-> content,
         hash |-> hashContent(content)]

\* lines 33-45: what the patterns match below the root, then the fixed files
MatchesOf(f, def, assetDef) ==
    SetToSeq({ p \in DOMAIN f :
                 /\ IsPrefix(def.root, p)
                 /\ FileAt(f, p).kind = "file"
                 /\ \E pat \in assetDef.patterns :
                      GlobMatches(pat, Drop(p, Len(def.root))) })
      \o [i \in 1..Len(assetDef.files) |-> def.root \o assetDef.files[i]]

AssetsOfType(f, def, assetDef) ==
    LET matches == SelectSeq(MatchesOf(f, def, assetDef),
                             LAMBDA p : FileAt(f, p).kind = "file")
    IN  [i \in 1..Len(matches) |-> AssetAt(f, def, assetDef.type, matches[i])]

RECURSIVE AssetsOfDef(_, _, _)
AssetsOfDef(f, def, assetDefs) ==
    IF assetDefs = <<>> THEN <<>>
    ELSE AssetsOfType(f, def, Head(assetDefs)) \o AssetsOfDef(f, def, Tail(assetDefs))

\* discoverAssets with filters.clients ({} when not given); filters.types is
\* never given and there is no Cursor history directory
RECURSIVE discoverAssets(_, _, _)
discoverAssets(f, definitions, clients) ==
    IF definitions = <<>> THEN <<>>
    ELSE (IF /\ (clients = {} \/ Head(definitions).name \in clients)
             /\ fileExists(f, Head(definitions).root)
            THEN AssetsOfDef(f, Head(definitions), Head(definitions).assets)
            ELSE <<>>)
           \o discoverAssets(f, Tail(definitions), clients)

----------------------------------------------------------------------------
(* The Plan Builder: buildSyncPlan (plan.ts) *)

\* Array.prototype.indexOf: 0-based, -1 when absent
indexOf(seq, x) ==
    IF \E i \in 1..Len(seq) : seq[i] = x
      THEN (CHOOSE i \in 1..Len(seq) :
              seq[i] = x /\ \A j \in 1..(i - 1) : seq[j] # x) - 1
      ELSE -1

makeAssetKey(type, relativePath) == <<type, normalizeRelativePath(relativePath)>>

getCanonicalRelative(asset) == normalizeRelativePath(asset.canonicalPath)

KeyOf(asset) == makeAssetKey(asset.type, getCanonicalRelative(asset))

\* the stable sort of lines 39-43: one bucket per value of priority.indexOf
RECURSIVE PriorityBuckets(_, _, _)
PriorityBuckets(as, priority, k) ==
    IF k >= Len(priority) THEN <<>>
    ELSE SelectSeq(as, LAMBDA a : indexOf(priority, a.client) = k)
           \o PriorityBuckets(as, priority, k + 1)

\* lines 45-54: the first asset of every key, in order of first appearance
RECURSIVE FirstPerKey(_, _)
FirstPerKey(as, seen) ==
    IF as = <<>> THEN <<>>
    ELSE IF KeyOf(Head(as)) \in seen THEN FirstPerKey(Tail(as), seen)
    ELSE <<Head(as)>> \o FirstPerKey(Tail(as), seen \cup {KeyOf(Head(as))})

\* lines 56-62 and 88: existingMap.get(client)?.get(key), the last asset
\* of the client under the key; <<>> when there is none
ExistingOf(as, client, key) ==
    LET at == { i \in 1..Len(as) : as[i].client = client /\ KeyOf(as[i]) = key }
    IN  IF at = {} THEN <<>> ELSE <<as[Max(at)]>>

supports(def) == { def.assets[i].type : i \in 1..Len(def.assets) }

\* the pairs (def, desired) in the order of the loops of lines 66 and 72
RECURSIVE Cross(_, _)
Cross(defs, canonical) ==
    IF defs = <<>> THEN <<>>
    ELSE [i \in 1..Len(canonical) |-> [def |-> Head(defs), desired |-> canonical[i]]]
           \o Cross(Tail(defs), canonical)

\* lines 80-86
TargetPathOf(def, desired) ==
    buildTargetAbsolutePath(def.root,
        remapRelativePathForTarget(desired, def.name,
            resolveTargetRelativePath(def.name, desired)))

PlanEntry(asset, targetClient, targetPath, action) ==
    [asset |-> asset, targetClient |-> targetClient, targetPath |-> targetPath,
     action |-> action, reason |-> ""]

\* validatePathSafe is called without a guard at line 87: one pair that fails
\* it makes the whole call throw.  The result says whether the call threw and
\* carries the plan and the desired assets when it did not.
buildSyncPlan(as, defs, opts) ==
    LET priority == IF opts.priority = <<>> THEN CLIENT_ORDER ELSE opts.priority
        filteredAssets ==
            IF opts.mode = "source"
              THEN SelectSeq(as, LAMBDA a : a.client = opts.source)
              ELSE as
        sorted == PriorityBuckets(filteredAssets, priority, -1)
        canonical == FirstPerKey(sorted, {})
        pairs == SelectSeq(Cross(defs, canonical), LAMBDA c :
                    /\ (opts.clients = {} \/ c.def.name \in opts.clients)
                    /\ c.desired.type \in supports(c.def)
                    /\ ~(c.def.name = c.desired.client /\ opts.mode # "source"))
        entryOf(c) ==
            LET existing == ExistingOf(as, c.def.name, KeyOf(c.desired))
                targetPath == TargetPathOf(c.def, c.desired)
            IN  IF existing # <<>> /\ existing[1].hash = c.desired.hash
                  THEN [PlanEntry(c.desired, c.def.name, targetPath, "skip")
                          EXCEPT !.reason = "up-to-date"]
                  ELSE PlanEntry(c.desired, c.def.name, targetPath,
                                 IF existing # <<>> THEN "update" ELSE "create")
        throws == \E i \in 1..Len(pairs) :
                    ~validatePathSafe(pairs[i].def.root,
                                      TargetPathOf(pairs[i].def, pairs[i].desired))
    IN  IF throws THEN [threw |-> TRUE, plan |-> <<>>, desiredAssets |-> <<>>]
        ELSE [threw |-> FALSE,
              plan |-> [i \in 1..Len(pairs) |-> entryOf(pairs[i])],
              desiredAssets |-> canonical]

----------------------------------------------------------------------------
(* The interactive Plan Builder: detectConflicts, resolveConflict and        *)
(* buildPlanFromConflicts (interactive.ts)                                   *)

\* `${asset.type}::${asset.canonicalPath ?? asset.relativePath}`
ConflictKey(asset) == <<asset.type, asset.canonicalPath>>

\* an insertion-ordered Map as a sequence of [key, val] with distinct keys
MapHas(m, key) == \E i \in 1..Len(m) : m[i].key = key

MapSet(m, key, val) ==
    IF MapHas(m, key)
      THEN [i \in 1..Len(m) |-> IF m[i].key = key THEN [key |-> key, val |-> val]
                                ELSE m[i]]
      ELSE Append(m, [key |-> key, val |-> val])

\* the distinct keys of the assets, in order of first appearance
RECURSIVE KeysInOrder(_, _)
KeysInOrder(as, seen) ==
    IF as = <<>> THEN <<>>
    ELSE IF ConflictKey(Head(as)) \in seen THEN KeysInOrder(Tail(as), seen)
    ELSE <<ConflictKey(Head(as))>>
           \o KeysInOrder(Tail(as), seen \cup {ConflictKey(Head(as))})

\* a.modifiedAt?.getTime() ?? 0: discoverAssets gives its assets no
\* modifiedAt
TimeOf(asset) == IF "modifiedAt" \in DOMAIN asset THEN asset.modifiedAt ELSE 0

\* the stable sort of lines 492-496, newest first
RECURSIVE SortNewestFirst(_)
SortNewestFirst(versions) ==
    IF versions = <<>> THEN <<>>
    ELSE LET newest == Max({ TimeOf(versions[i]) : i \in 1..Len(versions) })
         IN  SelectSeq(versions, LAMBDA v : TimeOf(v) = newest)
               \o SortNewestFirst(SelectSeq(versions, LAMBDA v : TimeOf(v) # newest))

Conflict(key, versions) ==
    [canonicalKey |-> key, type |-> versions[1].type, versions |-> versions,
     resolution |-> "", selectedVersion |-> <<>>]

\* a detection that takes every key held more than once for a conflict
detectConflicts_AnySharedKey(as) ==
    LET keys == KeysInOrder(as, {})
        versionsOf(key) == SelectSeq(as, LAMBDA a : ConflictKey(a) = key)
        conflicting == SelectSeq(keys, LAMBDA key : Len(versionsOf(key)) > 1)
    IN  [i \in 1..Len(conflicting) |->
            Conflict(conflicting[i], SortNewestFirst(versionsOf(conflicting[i])))]

detectConflicts(as) ==
    LET keys == KeysInOrder(as, {})
        versionsOf(key) == SelectSeq(as, LAMBDA a : ConflictKey(a) = key)
        conflicting == SelectSeq(keys, LAMBDA key :
            Cardinality({ versionsOf(key)[i].hash : i \in 1..Len(versionsOf(key)) }) > 1)
    IN  [i \in 1..Len(conflicting) |->
            Conflict(conflicting[i], SortNewestFirst(versionsOf(conflicting[i])))]

\* resolveConflict: what the user can answer for a conflict, and what the
\* answer leaves in the conflict
Resolutions(conflict) ==
    LET picked(client) ==
            conflict.versions[CHOOSE i \in 1..Len(conflict.versions) :
                /\ conflict.versions[i].client = client
                /\ \A j \in 1..(i - 1) : conflict.versions[j].client # client]
    IN  { [conflict EXCEPT
             !.resolution = IF v.client = conflict.versions[1].client
                              THEN "source" ELSE "target",
             !.selectedVersion = <<picked(v.client)>>] :
            v \in { conflict.versions[i] : i \in 1..Len(conflict.versions) } }
          \cup { [conflict EXCEPT !.resolution =
                     IF conflict.type \in {"agents", "mcp"} THEN "merge" ELSE "rename"],
                 [conflict EXCEPT !.resolution = "skip"] }

\* every way of answering all the conflicts
RECURSIVE ResolveAll(_)
ResolveAll(conflicts) ==
    IF conflicts = <<>> THEN { <<>> }
    ELSE { <<c>> \o rest : c \in Resolutions(Head(conflicts)),
                           rest \in ResolveAll(Tail(conflicts)) }

\* the suffix goes before the last dot of the whole path string
addClientSuffix(filePath, client) ==
    LET dotted == { i \in 1..Len(filePath) : HasDot(filePath[i]) }
    IN  IF dotted = {}
          THEN [filePath EXCEPT ![Len(filePath)] = @ \o "-" \o client]
          ELSE [filePath EXCEPT ![Max(dotted)] =
                  StemOf(@) \o "-" \o client \o LastExt(@)]

\* versions.map((v) => v.content).join("\n\n---\n\n") for markdown texts: the
\* front matter of the first version stays the front matter
RECURSIVE JoinBodies(_)
JoinBodies(versions) ==
    IF Len(versions) = 1 THEN versions[1].content.body
    ELSE versions[1].content.body \o "\n\n---\n\n" \o JoinBodies(Tail(versions))

MergedContent(conflict) ==
    IF conflict.type = "mcp"
      THEN LET out == mergeMcpAssets(conflict.versions)
           IN  IF out.kind = "text" THEN out.parts[1] ELSE out
      ELSE [body |-> JoinBodies(conflict.versions),
            keys |-> conflict.versions[1].content.keys]

\* lines 596-639, one conflict
RECURSIVE RenameAll(_, _)
RenameAll(resolved, versions) ==
    IF versions = <<>> THEN resolved
    ELSE LET version == Head(versions)
             renamedPath == addClientSuffix(version.canonicalPath, version.client)
         IN  RenameAll(MapSet(resolved, <<version.type, renamedPath>>,
                              [version EXCEPT !.canonicalPath = renamedPath,
                                              !.relativePath = renamedPath]),
                       Tail(versions))

\* a merge resolution that keeps the fingerprint of the first version
ResolveOne_KeepsBaseHash(resolved, conflict) ==
    CASE conflict.resolution = "skip" -> resolved
      [] conflict.resolution = "merge" ->
           MapSet(resolved, conflict.canonicalKey,
                  [conflict.versions[1] EXCEPT
                     !.content = MergedContent(conflict)])
      [] conflict.resolution = "rename" -> RenameAll(resolved, conflict.versions)
      [] OTHER ->
           IF conflict.selectedVersion # <<>>
             THEN MapSet(resolved, conflict.canonicalKey, conflict.selectedVersion[1])
           ELSE IF conflict.resolution = "source"
             THEN MapSet(resolved, conflict.canonicalKey, conflict.versions[1])
           ELSE IF Len(conflict.versions) >= 2
             THEN MapSet(resolved, conflict.canonicalKey, conflict.versions[2])
           ELSE resolved

ResolveOne(resolved, conflict) ==
    CASE conflict.resolution = "skip" -> resolved
      [] conflict.resolution = "merge" ->
           MapSet(resolved, conflict.canonicalKey,
                  [conflict.versions[1] EXCEPT
                     !.content = MergedContent(conflict),
                     !.hash = hashContent(MergedContent(conflict))])
      [] conflict.resolution = "rename" -> RenameAll(resolved, conflict.versions)
      [] OTHER ->
           IF conflict.selectedVersion # <<>>
             THEN MapSet(resolved, conflict.canonicalKey, conflict.selectedVersion[1])
           ELSE IF conflict.resolution = "source"
             THEN MapSet(resolved, conflict.canonicalKey, conflict.versions[1])
           ELSE IF Len(conflict.versions) >= 2
             THEN MapSet(resolved, conflict.canonicalKey, conflict.versions[2])
           ELSE resolved

RECURSIVE ResolveFrom(_, _)
ResolveFrom(resolved, conflicts) ==
    IF conflicts = <<>> THEN resolved
    ELSE ResolveFrom(ResolveOne(resolved, Head(conflicts)), Tail(conflicts))

\* lines 586-594
RECURSIVE Unconflicted(_, _, _)
Unconflicted(resolved, as, conflictKeys) ==
    IF as = <<>> THEN resolved
    ELSE LET key == ConflictKey(Head(as))
         IN  Unconflicted(IF key \in conflictKeys \/ MapHas(resolved, key)
                            THEN resolved
                            ELSE MapSet(resolved, key, Head(as)),
                          Tail(as), conflictKeys)

\* lines 577-584 and 664-666: clientAssets.get(client)?.get(canonical), the
\* hash of the last asset of the client at the canonical path
HashAt(as, client, canonical) ==
    LET at == { i \in 1..Len(as) :
                  as[i].client = client /\ as[i].canonicalPath = canonical }
    IN  IF at = {} THEN <<>> ELSE <<as[Max(at)].hash>>

\* the pairs (asset, clientName) in the order of the loops of lines 641-642
RECURSIVE CrossTargets(_, _)
CrossTargets(resolved, targetClients) ==
    IF resolved = <<>> THEN <<>>
    ELSE [i \in 1..Len(targetClients) |->
            [asset |-> Head(resolved).val, clientName |-> targetClients[i]]]
           \o CrossTargets(Tail(resolved), targetClients)

DefNamed(defs, name) == SelectSeq(defs, LAMBDA d : d.name = name)

\* lines 586-639: the desired asset of every key, in insertion order
resolvedAssetsOf(allAssets, conflicts) ==
    LET conflictKeys == { conflicts[i].canonicalKey : i \in 1..Len(conflicts) }
    IN  ResolveFrom(Unconflicted(<<>>, allAssets, conflictKeys), conflicts)

\* a plan builder that does not look at the direction
buildPlanFromConflicts_AnyDirection(allAssets, conflicts, targetClients, defs, direction) ==
    LET resolvedAssets == resolvedAssetsOf(allAssets, conflicts)
        pairs == SelectSeq(CrossTargets(resolvedAssets, targetClients), LAMBDA c :
            /\ c.clientName # c.asset.client
            /\ DefNamed(defs, c.clientName) # <<>>
            /\ c.asset.type \in supports(DefNamed(defs, c.clientName)[1])
            /\ HashAt(allAssets, c.clientName, c.asset.canonicalPath) # <<c.asset.hash>>)
        entryOf(c) ==
            PlanEntry(c.asset, c.clientName,
                      DefNamed(defs, c.clientName)[1].root \o c.asset.canonicalPath,
                      IF HashAt(allAssets, c.clientName, c.asset.canonicalPath) # <<>>
                        THEN "update" ELSE "create")
    IN  [i \in 1..Len(pairs) |-> entryOf(pairs[i])]

buildPlanFromConflicts(allAssets, conflicts, targetClients, defs, direction) ==
    LET resolvedAssets == resolvedAssetsOf(allAssets, conflicts)
        pairs == SelectSeq(CrossTargets(resolvedAssets, targetClients), LAMBDA c :
            /\ c.clientName # c.asset.client
            /\ ~(direction = "push" /\ c.asset.client # "project")
            /\ ~(direction = "pull" /\ c.clientName # "project")
            /\ DefNamed(defs, c.clientName) # <<>>
            /\ c.asset.type \in supports(DefNamed(defs, c.clientName)[1])
            /\ HashAt(allAssets, c.clientName, c.asset.canonicalPath) # <<c.asset.hash>>)
        entryOf(c) ==
            \* line 673: `${def.root}/${canonical}`
            PlanEntry(c.asset, c.clientName,
                      DefNamed(defs, c.clientName)[1].root \o c.asset.canonicalPath,
                      IF HashAt(allAssets, c.clientName, c.asset.canonicalPath) # <<>>
                        THEN "update" ELSE "create")
    IN  [i \in 1..Len(pairs) |-> entryOf(pairs[i])]

----------------------------------------------------------------------------
(* The review of the interactive plan: reviewAllAssets,                      *)
(* resolveAssetConflicts and buildFinalPlan (interactive.ts)                 *)

MapGet(m, key) == m[CHOOSE i \in 1..Len(m) : m[i].key = key].val

\* resolveAssetConflicts, lines 993-1008: the entries grouped by type and
\* asset name, one version per owning client
RECURSIVE AssetVersionsFrom(_, _)
AssetVersionsFrom(assetVersions, entries) ==
    IF entries = <<>> THEN assetVersions
    ELSE LET e == Head(entries)
             mapKey == <<e.asset.type, e.asset.name>>
             versions == IF MapHas(assetVersions, mapKey)
                           THEN MapGet(assetVersions, mapKey) ELSE <<>>
             seen == \E i \in 1..Len(versions) : versions[i].client = e.asset.client
         IN  AssetVersionsFrom(
                IF seen THEN assetVersions
                ELSE MapSet(assetVersions, mapKey,
                            Append(versions, [client |-> e.asset.client,
                                              asset |-> e.asset, entry |-> e])),
                Tail(entries))

\* resolveAssetConflicts, lines 1011-1098: one version per group; where the
\* versions of a group differ the user picks the client to take it from, or
\* skips the group.  Every way the user can answer.
RECURSIVE ResolveVersions(_)
ResolveVersions(assetVersions) ==
    IF assetVersions = <<>> THEN { [resolved |-> <<>>, hadConflicts |-> FALSE] }
    ELSE LET mapKey == Head(assetVersions).key
             versions == Head(assetVersions).val
             first == versions[1]
             hasDifferences ==
                 \E i \in 2..Len(versions) : versions[i].asset.hash # first.asset.hash
             item(v) == [name |-> mapKey[2], type |-> mapKey[1], version |-> v]
             picks == IF Len(versions) = 1 \/ ~hasDifferences
                        THEN { <<item(first)>> }
                        ELSE { <<item(versions[i])>> : i \in 1..Len(versions) }
                               \cup { <<>> }
         IN  { [resolved |-> p \o r.resolved,
                hadConflicts |-> hasDifferences \/ r.hadConflicts] :
                 p \in picks, r \in ResolveVersions(Tail(assetVersions)) }

\* reviewAllAssets, lines 762-822: nothing is asked for a single asset
\* without conflict; otherwise the user keeps every asset ticked or unticks
\* one
Selections(allResolved, hadConflicts) ==
    IF Len(allResolved) = 0 \/ (Len(allResolved) = 1 /\ ~hadConflicts)
      THEN { allResolved }
      ELSE { allResolved }
             \cup { SelectSeq(allResolved, LAMBDA r : r # allResolved[i]) :
                      i \in 1..Len(allResolved) }

\* buildFinalPlan, lines 1161-1190: the entries of the selected assets, one
\* per asset and target client, carrying the asset of the resolved version
RECURSIVE FinalEntries(_, _, _)
FinalEntries(selectedResolved, entries, processedTargets) ==
    IF entries = <<>> THEN <<>>
    ELSE LET e == Head(entries)
             hits == { i \in 1..Len(selectedResolved) :
                         /\ selectedResolved[i].type = e.asset.type
                         /\ selectedResolved[i].name = e.asset.name }
             targetKey == <<e.asset.type, e.asset.name, e.targetClient>>
         IN  IF hits = {} \/ targetKey \in processedTargets
               THEN FinalEntries(selectedResolved, Tail(entries), processedTargets)
               ELSE LET resolved == selectedResolved[Max(hits)]
                        kept == IF e.asset.client = resolved.version.client THEN e
                                ELSE [e EXCEPT !.asset = resolved.version.asset]
                    IN  <<kept>> \o FinalEntries(selectedResolved, Tail(entries),
                                                processedTargets \cup {targetKey})

buildFinalPlan(selectedResolved, otherEntries) ==
    FinalEntries(selectedResolved, otherEntries, {})

\* reviewAllAssets: every plan the review can return.  The machines of this
\* model hold no MCP file, so mcpEntries is empty and resolveMcpConflicts
\* returns at line 849 with nothing resolved.
reviewAllAssets(entries) ==
    LET otherEntries == SelectSeq(entries, LAMBDA e : e.asset.type # "mcp")
    IN  { buildFinalPlan(selected, otherEntries) :
            selected \in UNION { Selections(r.resolved, r.hadConflicts) :
                r \in ResolveVersions(AssetVersionsFrom(<<>>, otherEntries)) } }

----------------------------------------------------------------------------
(* Specification SpecSync: the program run, once or again, on a machine     *)
(* that holds the clients project, codex, claude and cursor                 *)

MaxRuns == 2

\* resolveClientsToCheck and filterAvailable (index.ts 107-142)
filterAvailable(f, defs, selectedClients, source) ==
    LET names == selectedClients \cup (IF source = "" THEN {} ELSE {source})
    IN  SelectSeq(defs, LAMBDA def :
            /\ (names = {} \/ def.name \in names)
            /\ fileExists(f, def.root))

\* main, lines 76-100: the clients that are there, and their assets
DiscoverAssets ==
    /\ pc = "start"
    /\ options.mode # "interactive"
    /\ LET available == filterAvailable(fs, buildClientDefinitions,
                                        options.clients, options.source)
           found == discoverAssets(fs, available, options.clients)
       IN  /\ discovered' = found
           /\ pc' = IF Len(found) = 0 THEN "done" ELSE "discovered"
    /\ UNCHANGED <<plan, options, fs, idx, result, appliedChanges, backupPath,
                   rbq, trace, fs0, run, mcp, prev, answers, flowVars>>

\* main, lines 102-103: the plan is built and handed to applyPlan, or
\* buildSyncPlan throws and main ends with the error
BuildSyncPlan ==
    /\ pc = "discovered"
    /\ LET available == filterAvailable(fs, buildClientDefinitions,
                                        options.clients, options.source)
           built == buildSyncPlan(discovered, available, options)
       IN  /\ IF built.threw THEN plan' = <<>> /\ pc' = "threw"
              ELSE plan' = built.plan /\ pc' = "loop"
           /\ desiredMap' = [i \in 1..Len(built.desiredAssets) |->
                               [key |-> KeyOf(built.desiredAssets[i]),
                                val |-> built.desiredAssets[i]]]
    /\ UNCHANGED <<options, fs, idx, result, appliedChanges, backupPath, rbq,
                   trace, fs0, run, mcp, discovered, prev, answers,
                   assetConflicts, mtime, pathCase>>

\* what the user ticks in the multiselect of selectTargetClients: the
\* clients offered, or one of them
Ticked(names) == {names} \cup { <<names[i]>> : i \in 1..Len(names) }

\* scanAllClients (interactive.ts 442-475): what discovery finds per client
RECURSIVE FlatScan(_, _, _)
FlatScan(f, defs, names) ==
    IF names = <<>> THEN <<>>
    ELSE discoverAssets(f, DefNamed(defs, Head(names)), {})
           \o FlatScan(f, defs, Tail(names))

ClientNames(defs) == [i \in 1..Len(defs) |-> defs[i].name]

GlobalNames(defs) == SelectSeq(ClientNames(defs), LAMBDA n : n # "project")

\* runInteractiveFlow (interactive.ts 152-199): the user answers the scope
\* and the direction, the clients are scanned
ScanAllClients ==
    /\ pc = "start"
    /\ options.mode = "interactive"
    /\ \E scope \in {"global", "project"} :
       \E direction \in (IF scope = "global" THEN {"sync"}
                         ELSE {"push", "pull", "sync"}) :
         LET defs == buildClientDefinitions
             allAssets ==
                 FlatScan(fs, defs, IF scope = "global" THEN GlobalNames(defs)
                                    ELSE ClientNames(defs))
         IN  /\ answers' = [scope |-> scope, direction |-> direction,
                             targets |-> <<>>]
             /\ discovered' = allAssets
             /\ pc' = IF Len(allAssets) = 0 THEN "done" ELSE "scanned"
    /\ UNCHANGED <<plan, options, fs, idx, result, appliedChanges, backupPath,
                   rbq, trace, fs0, run, mcp, prev, flowVars>>

\* runInteractiveFlow, lines 201-214: the assets the conflicts are looked
\* for in
assetsForConflictDetection(allAssets, scope, direction) ==
    IF direction \in {"push", "pull"} \/ scope = "global"
      THEN SelectSeq(allAssets, LAMBDA a : a.client # "project")
      ELSE allAssets

\* runInteractiveFlow, line 214
DetectConflicts ==
    /\ pc = "scanned"
    /\ assetConflicts' = detectConflicts(
           assetsForConflictDetection(discovered, answers.scope, answers.direction))
    /\ pc' = "detected"
    /\ UNCHANGED <<plan, options, fs, idx, result, appliedChanges, backupPath,
                   rbq, trace, fs0, run, mcp, discovered, prev, answers,
                   desiredMap, mtime, pathCase>>

\* runInteractiveFlow, lines 216-254: the user resolves every conflict and
\* ticks the target clients, the plan is built
BuildPlanFromConflicts ==
    /\ pc = "detected"
    /\ LET defs == buildClientDefinitions
           targetChoices ==
               IF answers.direction = "pull" THEN { <<"project">> }
               ELSE IF answers.direction = "push" \/ answers.scope = "global"
                 THEN Ticked(GlobalNames(defs))
               ELSE Ticked(ClientNames(defs))
       IN  \E conflicts \in ResolveAll(assetConflicts) :
           \E targetClients \in targetChoices :
             LET built == buildPlanFromConflicts(discovered, conflicts,
                              targetClients, defs, answers.direction)
             IN  /\ answers' = [answers EXCEPT !.targets = targetClients]
                 /\ assetConflicts' = conflicts
                 /\ desiredMap' = resolvedAssetsOf(discovered, conflicts)
                 /\ plan' = built
                 /\ pc' = IF Len(built) = 0 THEN "done" ELSE "built"
    /\ UNCHANGED <<options, fs, idx, result, appliedChanges, backupPath, rbq,
                   trace, fs0, run, mcp, discovered, prev, mtime, pathCase>>

\* runInteractiveFlow, lines 256-313: the user reviews the plan and confirms
\* it or not; main hands the reviewed entries to applyPlan
ReviewAllAssets ==
    /\ pc = "built"
    /\ \E reviewedPlan \in reviewAllAssets(plan) :
       \E confirmed \in BOOLEAN :
         IF Len(reviewedPlan) = 0 \/ ~confirmed
           THEN plan' = <<>> /\ pc' = "done"
           ELSE plan' = reviewedPlan /\ pc' = "loop"
    /\ UNCHANGED <<options, fs, idx, result, appliedChanges, backupPath, rbq,
                   trace, fs0, run, mcp, discovered, prev, answers, flowVars>>

\* the program is started again, with the same options, after a run that
\* reported no failure; the interactive flow is followed once
Rerun ==
    /\ pc \in {"done", "threw"}
    /\ options.mode # "interactive"
    /\ result.failed = 0
    /\ run < MaxRuns
    /\ run' = run + 1
    /\ prev' = [ended |-> TRUE, threw |-> pc = "threw", planned |-> Len(plan),
                failed |-> result.failed, applied |-> result.applied]
    /\ pc' = "start"
    /\ plan' = <<>>
    /\ discovered' = <<>>
    /\ idx' = 1
    /\ result' = EmptyResult
    /\ appliedChanges' = <<>>
    /\ backupPath' = NoPath
    /\ rbq' = <<>>
    /\ trace' = <<>>
    /\ fs0' = fs
    /\ desiredMap' = <<>>
    /\ UNCHANGED <<options, fs, mcp, answers, assetConflicts, mtime, pathCase>>

NextSync ==
    \/ DiscoverAssets
    \/ BuildSyncPlan
    \/ ScanAllClients
    \/ DetectConflicts
    \/ BuildPlanFromConflicts
    \/ ReviewAllAssets
    \/ Rerun
    \/ ReturnResult
    \/ SkipEntry
    \/ SkipUnchanged
    \/ DryRunPreview
    \/ BeginTry
    \/ CreateBackup
    \/ WriteFile
    \/ WriteFileCorrupts
    \/ WriteFileThrows
    \/ VerifyOk
    \/ VerifyFails
    \/ CreateSymlink
    \/ CreateSymlinkThrows
    \/ RollbackNothing
    \/ RollbackStep
    \/ RollbackComplete

TextModel == [body |-> "foo", keys |-> {"model"}]
TextPlain == [body |-> "foo", keys |-> {}]
TextOther == [body |-> "bar", keys |-> {}]

\* the files a machine may hold before the first run, and what each may hold
WorldFiles ==
    [p \in { <<"project", "commands", "..\\..\\x.md">>,
             <<"codex", "prompts", "x.md">>,
             <<"claude", "commands", "x.md">>,
             <<"claude", "commands", "a", "b.md">>,
             <<"cursor", "commands", "x.md">> } |->
       CASE p[1] = "project" -> {NoNode, FileNode(TextOther)}
         [] p[1] = "codex" -> {NoNode, FileNode(TextPlain)}
         [] p = <<"claude", "commands", "x.md">> ->
              {NoNode, FileNode(TextModel), FileNode(TextPlain)}
         [] p[1] = "claude" -> {NoNode, FileNode(TextPlain)}
         [] OTHER -> {NoNode, FileNode(TextOther)}]

\* every client directory exists
WorldRoots ==
    { buildClientDefinitions[i].root : i \in 1..Len(buildClientDefinitions) }

InitWorlds ==
    { f \in [WorldRoots \cup DOMAIN WorldFiles ->
               {DirNode} \cup UNION { WorldFiles[p] : p \in DOMAIN WorldFiles }] :
        /\ \A r \in WorldRoots : f[r] = DirNode
        /\ \A p \in DOMAIN WorldFiles : f[p] \in WorldFiles[p] }

InitSync ==
    /\ options \in { Options(d, l, m.mode, m.source, m.clients) :
                       d \in BOOLEAN, l \in BOOLEAN,
                       m \in { [mode |-> "merge", source |-> "", clients |-> {}],
                               [mode |-> "source", source |-> "claude",
                                clients |-> {"codex", "claude", "cursor"}],
                               [mode |-> "interactive", source |-> "", clients |-> {}] } }
    /\ fs \in InitWorlds
    /\ plan = <<>>
    /\ discovered = <<>>
    /\ idx = 1
    /\ pc = "start"
    /\ result = EmptyResult
    /\ appliedChanges = <<>>
    /\ backupPath = NoPath
    /\ rbq = <<>>
    /\ trace = <<>>
    /\ fs0 = fs
    /\ run = 1
    /\ mcp = NoMcp
    /\ prev = NoRun
    /\ answers = NoAnswers
    /\ assetConflicts = <<>>
    /\ desiredMap = <<>>
    /\ mtime = NoMtime
    /\ pathCase = NoPathCase

SpecSync == InitSync /\ [][NextSync]_vars

----------------------------------------------------------------------------
(* Specification SpecPlan: the plan builders alone, from discovery to the     *)
(* plan that main hands to applyPlan, on machines with agent files, commands *)
(* and the files a keep-both resolution leaves behind                        *)

NextPlan ==
    \/ DiscoverAssets
    \/ BuildSyncPlan
    \/ ScanAllClients
    \/ DetectConflicts
    \/ BuildPlanFromConflicts
    \/ ReviewAllAssets

\* the files a machine may hold, and what each may hold
PlanFiles ==
    [p \in { <<"project", "AGENTS.md">>,
             <<"project", "CLAUDE.md">>,
             <<"project", "commands", "x.md">>,
             <<"claude", "CLAUDE.md">>,
             <<"claude", "commands", "x.md">>,
             <<"claude", "commands", "a", "b.md">>,
             <<"cursor", "commands", "x.md">>,
             <<"cursor", "commands", "x-claude.md">>,
             <<"cursor", "commands", "a-b.md">> } |->
       CASE p = <<"project", "AGENTS.md">> -> {NoNode, FileNode(TextPlain)}
         [] p = <<"project", "CLAUDE.md">> -> {NoNode, FileNode(TextOther)}
         [] p = <<"claude", "CLAUDE.md">> ->
              {NoNode, FileNode(TextPlain), FileNode(TextOther)}
         [] p = <<"claude", "commands", "x.md">> -> {NoNode, FileNode(TextPlain)}
         [] OTHER -> {NoNode, FileNode(TextOther)}]

\* the nested command a/b.md and the command a-b.md
NestedFiles ==
    { <<"claude", "commands", "a", "b.md">>, <<"cursor", "commands", "a-b.md">> }

\* a machine holds the nested commands or the other files
PlanWorlds ==
    { [p \in WorldRoots \cup DOMAIN PlanFiles |->
         IF p \in WorldRoots THEN DirNode ELSE g[p]] :
        g \in { h \in [DOMAIN PlanFiles ->
                        UNION { PlanFiles[p] : p \in DOMAIN PlanFiles }] :
                  /\ \A p \in DOMAIN PlanFiles : h[p] \in PlanFiles[p]
                  /\ \/ \A p \in NestedFiles : h[p] = NoNode
                     \/ \A p \in (DOMAIN PlanFiles) \ NestedFiles : h[p] = NoNode } }

\* the modification times of the files: the files of the clients listed
\* first are the oldest, or the newest
ClientRank(client) == indexOf(CLIENT_ORDER, client) + 1

PlanMtimes ==
    { [p \in DOMAIN PlanFiles |-> ClientRank(p[1])],
      [p \in DOMAIN PlanFiles |-> Len(CLIENT_ORDER) + 1 - ClientRank(p[1])] }

\* the command lines: the default, --priority claude, --source claude
\* --clients project,claude,cursor, and the interactive flow
PlanOptions ==
    { Options(FALSE, FALSE, "merge", "", {}),
      [Options(FALSE, FALSE, "merge", "", {}) EXCEPT !.priority = <<"claude">>],
      Options(FALSE, FALSE, "source", "claude", {"project", "claude", "cursor"}),
      Options(FALSE, FALSE, "interactive", "", {}) }

InitPlan ==
    /\ options \in PlanOptions
    /\ fs \in PlanWorlds
    /\ mtime \in PlanMtimes
    /\ pathCase = NoPathCase
    /\ plan = <<>>
    /\ discovered = <<>>
    /\ idx = 1
    /\ pc = "start"
    /\ result = EmptyResult
    /\ appliedChanges = <<>>
    /\ backupPath = NoPath
    /\ rbq = <<>>
    /\ trace = <<>>
    /\ fs0 = fs
    /\ run = 1
    /\ mcp = NoMcp
    /\ prev = NoRun
    /\ answers = NoAnswers
    /\ assetConflicts = <<>>
    /\ desiredMap = <<>>

SpecPlan == InitPlan /\ [][NextPlan]_vars

----------------------------------------------------------------------------
(* Specification SpecPaths: the path functions applied to the relative      *)
(* paths discovery gives and to the targets a plan may name                  *)

MaxSegs == 5

PathCase(phase, client, type, input, root) ==
    [phase |-> phase, client |-> client, type |-> type, input |-> input,
     root |-> root, canonical |-> <<>>, targetClient |-> "", remapped |-> <<>>,
     again |-> <<>>, safe |-> FALSE]

\* what a file below a directory of commands may be called, directories
\* included
CommandRests ==
    { <<"x.md">>, <<"a-b.md">>, <<"a", "b.md">>, <<"a", "b", "x.md">>,
      <<"prompts", "x.md">>, <<"commands", "x.md">>, <<"a\\b.md">>,
      <<"..\\..\\x.md">> }

\* the relative paths discovery finds for a client and a type
DiscoveredPaths(client, type) ==
    CASE type = "agents" -> { <<"AGENTS.md">>, <<"CLAUDE.md">> }
      [] type = "commands" /\ client = "codex" ->
           { <<"prompts">> \o rest : rest \in CommandRests }
      [] OTHER -> { <<type>> \o rest : rest \in CommandRests }

PathClients == {"project", "codex", "claude", "cursor"}

\* the absolute paths validatePathSafe is asked about
TargetPaths ==
    UNION { [1..n -> {"root", "sub", "etc", "..", "..x.md", "file.txt"}] :
              n \in 1..MaxSegs }

InitPaths ==
    /\ pathCase \in
         { PathCase("relative", client, type, input, <<>>) :
             client \in PathClients, type \in {"agents", "commands", "rules"},
             input \in UNION { DiscoveredPaths(c, t) :
                                 c \in PathClients, t \in {"agents", "commands", "rules"} } }
         \cup { PathCase("target", "", "", input, root) :
                  input \in TargetPaths, root \in { <<"root">>, <<"root", "sub">> } }
    /\ pathCase.phase = "relative" =>
         pathCase.input \in DiscoveredPaths(pathCase.client, pathCase.type)
    /\ options = Options(FALSE, FALSE, "merge", "", {})
    /\ fs = [p \in {} |-> NoNode]
    /\ plan = <<>>
    /\ discovered = <<>>
    /\ idx = 1
    /\ pc = "paths"
    /\ result = EmptyResult
    /\ appliedChanges = <<>>
    /\ backupPath = NoPath
    /\ rbq = <<>>
    /\ trace = <<>>
    /\ fs0 = fs
    /\ run = 1
    /\ mcp = NoMcp
    /\ prev = NoRun
    /\ answers = NoAnswers
    /\ assetConflicts = <<>>
    /\ desiredMap = <<>>
    /\ mtime = NoMtime

PathsUnchanged ==
    UNCHANGED <<applyVars, mcp, discovered, prev, answers, assetConflicts,
                desiredMap, mtime>>

\* discoverAssets, lines 57-66: the canonical path of a discovered file
CanonicalizeRelativePath ==
    /\ pathCase.phase = "relative"
    /\ pathCase' = [pathCase EXCEPT
          !.phase = "canonical",
          !.canonical = canonicalizeRelativePath(pathCase.client, pathCase.type,
                                                 pathCase.input)]
    /\ PathsUnchanged

\* buildSyncPlan, lines 80-85: the canonical path in the layout of a target
\* client other than the owner
RemapRelativePathForTarget ==
    /\ pathCase.phase = "canonical"
    /\ \E targetClient \in PathClients \ {pathCase.client} :
         pathCase' = [pathCase EXCEPT
            !.phase = "remapped",
            !.targetClient = targetClient,
            !.remapped = remapRelativePathForTarget(
                [type |-> pathCase.type, client |-> pathCase.client,
                 canonicalPath |-> pathCase.canonical,
                 relativePath |-> pathCase.input],
                targetClient,
                denormalizeRelativePath(targetClient, pathCase.type,
                                        pathCase.canonical))]
    /\ PathsUnchanged

\* the next discovery canonicalizes the file that was written to the target
Rediscover ==
    /\ pathCase.phase = "remapped"
    /\ pathCase' = [pathCase EXCEPT
          !.phase = "rediscovered",
          !.again = canonicalizeRelativePath(pathCase.targetClient, pathCase.type,
                                             pathCase.remapped)]
    /\ PathsUnchanged

\* isValidPathSafe: whether validatePathSafe returns
ValidatePathSafe ==
    /\ pathCase.phase = "target"
    /\ pathCase' = [pathCase EXCEPT
          !.phase = "validated",
          !.safe = validatePathSafe(pathCase.root, pathCase.input)]
    /\ PathsUnchanged

NextPaths ==
    \/ CanonicalizeRelativePath
    \/ RemapRelativePathForTarget
    \/ Rediscover
    \/ ValidatePathSafe

SpecPaths == InitPaths /\ [][NextPaths]_vars

----------------------------------------------------------------------------
(* Claims about the Apply Engine, checked under Spec *)

IsRestore(t) == t.op \in {"restore", "restore-failed"}

IsMutation(t) == t.op \in {"backup", "write", "symlink", "restore", "restore-failed"}

FailedCopyRun == pc = "done" /\ result.failed > 0 /\ ~options.link

\* every entry that is not a skip has a destination of its own
DistinctDests ==
    \A i, j \in 1..Len(plan) :
        (i # j /\ plan[i].action # "skip" /\ plan[j].action # "skip")
            => plan[i].targetPath # plan[j].targetPath

\* C1: when entry k fails in copy mode, every entry applied before it in this
\* run is rolled back: its destination is restored from the backup made for
\* it in this run, and the restores go in reverse plan order.  (At "done"
\* appliedChanges has been reversed in place, so it lists the applied
\* entries last-first.)
C1_RollbackRestoresEveryApplied ==
    (FailedCopyRun /\ DistinctDests) =>
        LET restores == SelectSeq(trace, IsRestore)
        IN  /\ Len(restores) = Len(appliedChanges)
            /\ \A i \in 1..Len(appliedChanges) :
                 /\ i <= Len(restores) => restores[i].path = appliedChanges[i].targetPath
                 /\ appliedChanges[i].backupPath = BackupOf(appliedChanges[i].targetPath)

\* C2: once an entry has failed, the loop position never moves again, no
\* second failure is counted, and the only filesystem operations still issued
\* are the restores of the rollback, each at the destination of an entry
\* before the failed one.
C2_NothingAfterFailure ==
    [][ result.failed > 0 =>
          /\ idx' = idx
          /\ pc' \in {"rollback", "done"}
          /\ result'.failed = 1
          /\ result'.applied = result.applied
          /\ \/ trace' = trace
             \/ /\ Len(trace') = Len(trace) + 1
                /\ IsRestore(Last(trace'))
                /\ \E j \in 1..(idx - 1) : plan[j].targetPath = Last(trace').path
      ]_vars

\* C2 witness: a run that failed while a later entry, not a skip, was waiting
C2_Witness ==
    /\ pc = "done"
    /\ result.failed = 1
    /\ idx < Len(plan)
    /\ plan[idx + 1].action # "skip"
    /\ \A i \in 1..Len(trace) : trace[i].entry <= idx

\* C3: a result with failed > 0 always reports rolledBack = true, wherever
\* in the plan the failing entry is.
C3_FailedMeansRolledBack ==
    (pc = "done" /\ result.failed > 0) => result.rolledBack

\* C6: in copy mode, a step that overwrites a destination file that was
\* there is taken only when the sibling backup of this iteration exists and
\* holds the text the file has just before the write.
C6_BackupBeforeOverwrite ==
    [][ ( /\ pc = "write"
          /\ Node(fs, entry.targetPath).kind = "file"
          /\ Node(fs', entry.targetPath) # Node(fs, entry.targetPath) )
        => /\ backupPath = BackupOf(entry.targetPath)
           /\ Node(fs, backupPath) = Node(fs, entry.targetPath)
      ]_vars

\* C7: a dry run never changes the filesystem: no backup, write, link or
\* restore is issued and result.backups stays empty.
C7_DryRunMutatesNothing ==
    options.dryRun =>
        /\ fs = fs0
        /\ result.backups = <<>>
        /\ \A i \in 1..Len(trace) : ~IsMutation(trace[i])
        /\ pc \in {"loop", "done"}

\* C7 witness: a finished dry run that previewed a write in copy mode and
\* would have linked in link mode
C7_Witness ==
    /\ options.dryRun
    /\ pc = "done"
    /\ result.applied >= 1
    /\ \E i \in 1..Len(plan) :
         plan[i].action # "skip" /\ Node(fs, plan[i].targetPath).kind = "file"

----------------------------------------------------------------------------
(* Claims about whole runs, checked under SpecSync *)

\* the previous run was a successful copy-mode run of the pipeline
\* discover, plan, apply
AfterSuccessfulCopyRun ==
    /\ run = 2
    /\ prev.ended
    /\ ~prev.threw
    /\ prev.failed = 0
    /\ options.mode # "interactive"
    /\ ~options.link
    /\ ~options.dryRun

\* no destination that is there was unreadable in this run
NoReadFault == \A i \in 1..Len(trace) : trace[i].op # "read-failed"

\* C4: after one successful copy-mode run, a second run on the same clients
\* issues no backup and no write, and when it ends every entry of its plan
\* has been counted as skipped.
C4_SecondRunIsAllSkipped ==
    (AfterSuccessfulCopyRun /\ NoReadFault) =>
        /\ \A i \in 1..Len(trace) : ~IsMutation(trace[i])
        /\ pc = "done" =>
              /\ result.skipped = Len(plan)
              /\ result.applied = 0
              /\ result.failed = 0

\* the destination of a plan entry, normalized, lies inside the root of the
\* client the entry is for
InsideRoot(e) == IsPrefix(Root(e.targetClient), Normalize(e.targetPath))

\* C5: every entry of a plan the Plan Builder has produced has a destination
\* inside the root of its target client; a destination outside the root
\* makes plan construction throw, so no plan holds one.
C5_PlanEntriesInsideRoot ==
    \A i \in 1..Len(plan) : InsideRoot(plan[i])

----------------------------------------------------------------------------
(* Claims about the MCP merger, checked under SpecMcp *)

Defines(config, name) == config.hasServers /\ name \in DOMAIN config.mcpServers

\* C8: the merged definition of every server name is the whole definition
\* given by the last config of the list that defines the name, names no
\* config defines are absent, and the empty list gives the empty mapping.
C8_LastWriteWins ==
    mcp.phase = "configs-merged" =>
        LET cs == mcp.configs
            m  == mcp.merged
        IN  /\ ~m.isNull
            /\ m.hasServers
            /\ DOMAIN m.mcpServers =
                 { n \in ServerNames : \E i \in 1..Len(cs) : Defines(cs[i], n) }
            /\ \A n \in DOMAIN m.mcpServers :
                 \E i \in 1..Len(cs) :
                    /\ Defines(cs[i], n)
                    /\ \A j \in (i + 1)..Len(cs) : ~Defines(cs[j], n)
                    /\ m.mcpServers[n] = cs[i].mcpServers[n]
            /\ (cs = <<>> => m.mcpServers = EmptyMap)

\* C8 witness: a merge in which a later config redefines a server with other
\* fields than an earlier one
C8_Witness ==
    /\ mcp.phase = "configs-merged"
    /\ \E i, j \in 1..Len(mcp.configs) :
         /\ i < j
         /\ Defines(mcp.configs[i], "fs")
         /\ Defines(mcp.configs[j], "fs")
         /\ mcp.configs[i].mcpServers["fs"] = SrvNpx
         /\ mcp.configs[j].mcpServers["fs"] = SrvGh
         /\ mcp.merged.mcpServers["fs"] = SrvGh

\* C9: on two or more assets the merged config is serialized in the format
\* detected for the first asset of the list, whatever the other assets are.
C9_FormatOfFirstAsset ==
    (mcp.phase = "assets-merged" /\ Len(mcp.assets) >= 2 /\ mcp.out.kind = "text") =>
        mcp.out.parts[1] =
            serializeMcpConfig(mergeMcpConfigs(ParsedConfigs(mcp.assets)),
                               detectMcpFormat(mcp.assets[1].path))

\* C10: when none of two or more assets parses, the result is not null: it
\* is every raw text, in input order, with the separator between neighbours.
C10_ConcatenationFallback ==
    ( /\ mcp.phase = "assets-merged"
      /\ Len(mcp.assets) >= 2
      /\ \A i \in 1..Len(mcp.assets) : ~Parses(mcp.assets[i]) ) =>
        LET n == Len(mcp.assets)
            ps == mcp.out.parts
        IN  /\ mcp.out.kind = "concat"
            /\ Len(ps) = 2 * n - 1
            /\ \A i \in 1..n : ps[2 * i - 1] = mcp.assets[i].content
            /\ \A i \in 1..(n - 1) : ps[2 * i] = Separator

\* C10 witness: two different texts, neither of which parses, were merged
C10_Witness ==
    /\ mcp.phase = "assets-merged"
    /\ Len(mcp.assets) >= 2
    /\ \A i \in 1..Len(mcp.assets) : ~Parses(mcp.assets[i])
    /\ mcp.assets[1].content # mcp.assets[2].content
    /\ mcp.out.kind = "concat"

\* the servers of a config all carry a command, an argument list and an
\* environment mapping
CarriesAll(config) ==
    /\ config.hasServers
    /\ \A n \in DOMAIN config.mcpServers :
         DOMAIN config.mcpServers[n] = {"command", "args", "env"}

\* C11: for json, jsonc, toml and yaml, parsing what was serialized from a
\* config whose servers carry command, args and env gives back the same
\* mapping of server names to {command, args, env}.
C11_RoundTrip ==
    ( /\ mcp.phase = "round-trip"
      /\ mcp.format \in {"json", "jsonc", "toml", "yaml"}
      /\ CarriesAll(mcp.configs[1]) ) =>
        /\ ~mcp.merged.isNull
        /\ mcp.merged.mcpServers = mcp.configs[1].mcpServers

\* C12: in every format a text that does not parse gives null: malformed
\* JSON, and TOML or YAML text that is not blank and has no structure the
\* parser recognises; blank text gives the empty server mapping, not null.
C12_ParseFailureIsNull ==
    mcp.phase = "parsed" =>
        LET content == mcp.out.parts[1]
        IN  /\ (content.syn = "blank" =>
                   mcp.merged = Config(EmptyMap, EmptyMap))
            /\ ( ( /\ content.syn = "junk"
                   /\ mcp.format \in {"json", "jsonc", "toml", "yaml"} ) =>
                   mcp.merged.isNull )

----------------------------------------------------------------------------
(* Claims about the plan builders, checked under SpecPlan *)

\* the assets runInteractiveFlow hands to detectConflicts
DetectionInput ==
    assetsForConflictDetection(discovered, answers.scope, answers.direction)

\* the places of the assets of a (type, canonicalPath) group in the input
GroupOf(as, key) == { i \in 1..Len(as) : ConflictKey(as[i]) = key }

FingerprintsOf(as, key) == { as[i].hash : i \in GroupOf(as, key) }

\* C13: detectConflicts gives exactly one Conflict for every (type,
\* canonicalPath) group with more than one distinct fingerprint, holding
\* exactly the assets of the group, and no Conflict for a group whose assets
\* share one fingerprint.
C13_OneConflictPerDifferingGroup ==
    pc = "detected" =>
        LET as == DetectionInput
            keys == { ConflictKey(as[i]) : i \in 1..Len(as) }
            hits(key) == { c \in 1..Len(assetConflicts) :
                             assetConflicts[c].canonicalKey = key }
        IN  /\ \A c \in 1..Len(assetConflicts) :
                 assetConflicts[c].canonicalKey \in keys
            /\ \A key \in keys :
                 IF Cardinality(FingerprintsOf(as, key)) > 1
                   THEN /\ Cardinality(hits(key)) = 1
                        /\ \A c \in hits(key) :
                             LET versions == assetConflicts[c].versions
                             IN  /\ Len(versions) = Cardinality(GroupOf(as, key))
                                 /\ { versions[i] : i \in 1..Len(versions) }
                                      = { as[i] : i \in GroupOf(as, key) }
                   ELSE hits(key) = {}

\* a conflict was detected next to a group of two copies with one fingerprint
C13_Witness ==
    /\ pc = "detected"
    /\ assetConflicts # <<>>
    /\ \E i \in 1..Len(DetectionInput) :
         LET key == ConflictKey(DetectionInput[i])
         IN  /\ Cardinality(GroupOf(DetectionInput, key)) > 1
             /\ Cardinality(FingerprintsOf(DetectionInput, key)) = 1

HandedToApply == pc = "loop"

\* C15: outside source mode no entry of the plan handed to applyPlan targets
\* the client that owns the entry's asset, whether the plan comes from
\* buildSyncPlan, from buildPlanFromConflicts or from the review.
C15_NeverBackToOwner ==
    (HandedToApply /\ options.mode # "source") =>
        \A i \in 1..Len(plan) : plan[i].targetClient # plan[i].asset.client

\* the plan buildSyncPlan returned is in the state
PlanBuilt == options.mode # "interactive" /\ pc = "loop"

\* the clients buildSyncPlan plans for and the desired assets it chose
PlannedClients ==
    filterAvailable(fs, buildClientDefinitions, options.clients, options.source)

\* the fingerprints of the assets a client holds at a canonical key
HeldAt(as, client, key) ==
    { as[i].hash : i \in { j \in 1..Len(as) :
                             as[j].client = client /\ KeyOf(as[j]) = key } }

\* C16: for every target client and every desired asset of a type the
\* client supports (the owner of the asset left out, except in source mode)
\* the plan of buildSyncPlan holds exactly one entry; its action is skip with
\* reason up-to-date when the client holds an asset with the same fingerprint
\* at the canonical key, update when it holds one there with another
\* fingerprint, and create when it holds none.
C16_OneEntryPerTargetAndKey ==
    PlanBuilt =>
        \A d \in 1..Len(PlannedClients) : \A k \in 1..Len(desiredMap) :
            LET def == PlannedClients[d]
                desired == desiredMap[k].val
                held == HeldAt(discovered, def.name, desiredMap[k].key)
                hits == { i \in 1..Len(plan) :
                            /\ plan[i].targetClient = def.name
                            /\ KeyOf(plan[i].asset) = desiredMap[k].key }
            IN  ( /\ desired.type \in supports(def)
                  /\ (options.mode = "source" \/ def.name # desired.client) ) =>
                    /\ Cardinality(hits) = 1
                    /\ \A i \in hits :
                         /\ plan[i].asset = desired
                         /\ IF desired.hash \in held
                              THEN plan[i].action = "skip"
                                     /\ plan[i].reason = "up-to-date"
                            ELSE IF held # {} THEN plan[i].action = "update"
                            ELSE plan[i].action = "create"

\* options.priority ?? CLIENT_ORDER
PriorityOrder == IF options.priority = <<>> THEN CLIENT_ORDER ELSE options.priority

\* the clients that hold an asset at a key
HoldersOf(as, key) == { as[i].client : i \in { j \in 1..Len(as) : KeyOf(as[j]) = key } }

\* C17: in merge mode the desired asset of every canonical key is owned by
\* the client that comes earliest in the priority order among the clients
\* of that order holding the key.
C17_HighestPriorityWins ==
    (PlanBuilt /\ options.mode = "merge") =>
        \A k \in 1..Len(desiredMap) :
            LET holders == HoldersOf(discovered, desiredMap[k].key)
                listed == { i \in 1..Len(PriorityOrder) : PriorityOrder[i] \in holders }
            IN  listed # {} =>
                    \A i \in listed : (\A j \in listed : i <= j) =>
                        /\ desiredMap[k].val.client = PriorityOrder[i]
                        /\ \E a \in 1..Len(discovered) :
                             discovered[a] = desiredMap[k].val

\* the interactive flow has built its plan, reviewed or not yet
InteractivePlan == options.mode = "interactive" /\ pc \in {"built", "loop"}

\* C18: in push direction every plan entry carries an asset owned by the
\* project client, and in pull direction every plan entry targets the
\* project client.
C18_DirectionFilter ==
    InteractivePlan =>
        /\ answers.direction = "push" =>
             \A i \in 1..Len(plan) : plan[i].asset.client = "project"
        /\ answers.direction = "pull" =>
             \A i \in 1..Len(plan) : plan[i].targetClient = "project"

\* a push goes to applyPlan from a machine whose global clients hold assets
\* too
C18_Witness ==
    /\ options.mode = "interactive"
    /\ pc = "loop"
    /\ answers.direction = "push"
    /\ plan # <<>>
    /\ \E i \in 1..Len(discovered) : discovered[i].client # "project"

\* C19: in push direction, for every asset of the project and every target
\* client the user ticked that supports the asset's type and does not hold
\* the same content at the asset's canonical path, the plan built holds an
\* entry that writes the project's version to that client.
C19_PushWritesProjectVersion ==
    ( /\ options.mode = "interactive"
      /\ pc = "built"
      /\ answers.direction = "push" ) =>
        \A a \in 1..Len(discovered) : \A t \in 1..Len(answers.targets) :
            LET asset == discovered[a]
                def == DefNamed(buildClientDefinitions, answers.targets[t])[1]
                held == { discovered[i].hash :
                            i \in { j \in 1..Len(discovered) :
                                      /\ discovered[j].client = def.name
                                      /\ ConflictKey(discovered[j]) = ConflictKey(asset) } }
            IN  ( /\ asset.client = "project"
                  /\ asset.type \in supports(def)
                  /\ asset.hash \notin held ) =>
                    \E i \in 1..Len(plan) :
                        /\ plan[i].targetClient = def.name
                        /\ plan[i].asset = asset

\* the key a version is kept under when both are kept: the name of the
\* owning client goes before the extension of the file name, or at the end
\* of a name without extension
RenamedKey(version) ==
    <<version.type,
      [version.canonicalPath EXCEPT ![Len(version.canonicalPath)] =
          IF ExtOf(@) = "" THEN @ \o "-" \o version.client
          ELSE StemOf(@) \o "-" \o version.client \o ExtOf(@)]>>

\* the conflicts answered with keep-both
RenamedConflicts ==
    { c \in 1..Len(assetConflicts) : assetConflicts[c].resolution = "rename" }

\* C20: for a conflict answered with keep-both every version is in the
\* desired set under its own key, the canonical path with the name of the
\* owning client before the extension; the keys of the versions differ from
\* one another and from the keys of the other desired assets, so that the
\* desired set gains one entry per version.
C20_KeepBothRetainsEveryVersion ==
    (options.mode = "interactive" /\ pc = "built") =>
        \A c \in RenamedConflicts :
            LET versions == assetConflicts[c].versions
            IN  /\ \A v \in 1..Len(versions) :
                     /\ MapHas(desiredMap, RenamedKey(versions[v]))
                     /\ MapGet(desiredMap, RenamedKey(versions[v])).client
                          = versions[v].client
                     /\ MapGet(desiredMap, RenamedKey(versions[v])).content
                          = versions[v].content
                /\ \A v, w \in 1..Len(versions) :
                     v # w => RenamedKey(versions[v]) # RenamedKey(versions[w])
                /\ \A v \in 1..Len(versions) : \A a \in 1..Len(discovered) :
                     ConflictKey(discovered[a]) # RenamedKey(versions[v])

----------------------------------------------------------------------------
(* Claims about the path functions, checked under SpecPaths *)

\* C21: the canonical path of a commands asset of codex is commands/...,
\* the relative path with its leading prompts/ piece taken off; a canonical
\* commands/<rest> remapped to codex is prompts/<rest> with the slashes of
\* <rest> turned into dashes.
C21_CodexPromptsConvention ==
    /\ ( /\ pathCase.phase \in {"canonical", "remapped", "rediscovered"}
         /\ pathCase.client = "codex"
         /\ pathCase.type = "commands" ) =>
           /\ Len(pathCase.canonical) >= 2
           /\ pathCase.canonical[1] = "commands"
           /\ pathCase.input[1] = "prompts" =>
                pathCase.canonical = <<"commands">> \o Tail(pathCase.input)
    /\ ( /\ pathCase.phase \in {"remapped", "rediscovered"}
         /\ pathCase.type = "commands"
         /\ pathCase.targetClient = "codex"
         /\ Len(pathCase.canonical) >= 2
         /\ pathCase.canonical[1] = "commands" ) =>
           pathCase.remapped = <<"prompts", JoinDash(Tail(pathCase.canonical))>>

\* a normalized absolute path lies inside a normalized root: below it, or
\* the root itself
Inside(root, target) == IsPrefix(Normalize(root), Normalize(target))

\* C22: validatePathSafe accepts exactly the targets that normalize to a
\* path inside the normalized root, and throws for every other target.
C22_RejectsExactlyOutside ==
    pathCase.phase = "validated" =>
        (pathCase.safe <=> Inside(pathCase.root, pathCase.input))

\* C27: a canonical commands path remapped to the layout of codex and
\* canonicalized again as a commands file of codex is the path it was: a
\* command written to codex is rediscovered under its canonical key.
C27_CodexRoundTrip ==
    ( /\ pathCase.phase = "rediscovered"
      /\ pathCase.type = "commands"
      /\ pathCase.targetClient = "codex" ) =>
        pathCase.again = pathCase.canonical

----------------------------------------------------------------------------
(* Further claims about the Apply Engine, checked under Spec *)

EveryRestoreSucceeded == \A i \in 1..Len(trace) : trace[i].op # "restore-failed"

\* C23: after a copy-mode run that failed and whose restores all succeeded,
\* every destination the plan names holds what it held before the run, or
\* is absent as it was: the destinations of the entries applied earlier and
\* the destination of the failing entry too.
C23_FailedRunLeavesDestinations ==
    (FailedCopyRun /\ EveryRestoreSucceeded) =>
        \A i \in 1..Len(plan) :
            Node(fs, plan[i].targetPath) = Node(fs0, plan[i].targetPath)

\* C24: a restore that fails during the rollback adds one error to the
\* result and the rollback goes on: every applied entry that has a backup
\* gets its restore attempted, last applied first, and rolledBack is set
\* when the rollback ends.
C24_RollbackGoesOnAfterFailedRestore ==
    (pc = "done" /\ result.failed > 0) =>
        LET backedUp == SelectSeq(appliedChanges, LAMBDA ch : ch.backupPath # NoPath)
            attempts == SelectSeq(trace, IsRestore)
            failures == SelectSeq(trace, LAMBDA t : t.op = "restore-failed")
        IN  /\ Len(attempts) = Len(backedUp)
            /\ \A i \in 1..Len(backedUp) :
                 i <= Len(attempts) => attempts[i].path = backedUp[i].targetPath
            /\ Len(result.errors) = 1 + Len(failures)
            /\ \A i \in 1..Len(failures) :
                 (i + 1) <= Len(result.errors) =>
                     result.errors[i + 1] = [kind |-> "restore", path |-> failures[i].path]
            /\ failures # <<>> => result.rolledBack

\* a restore failed and a restore of an entry applied earlier was still
\* attempted
C24_Witness ==
    /\ pc = "done"
    /\ result.rolledBack
    /\ \E i, j \in 1..Len(trace) :
         i < j /\ trace[i].op = "restore-failed" /\ IsRestore(trace[j])

----------------------------------------------------------------------------
(* Further claims about the plan builders, checked under SpecPlan *)

\* C25: in a plan that a plan builder returns, from any discovered assets
\* and target clients, no two entries that are not skips have the same
\* destination path.
C25_OneEntryPerDestination ==
    (pc \in {"loop", "built"}) =>
        \A i, j \in 1..Len(plan) :
            (i # j /\ plan[i].action # "skip" /\ plan[j].action # "skip")
                => plan[i].targetPath # plan[j].targetPath

\* the texts discovery read on this machine
DiscoveredContents == { discovered[i].content : i \in 1..Len(discovered) }

C28_ConflictSpansTwoClients ==
    pc = "detected" =>
        \A c \in 1..Len(assetConflicts) :
            Cardinality({ assetConflicts[c].versions[v].client :
                            v \in 1..Len(assetConflicts[c].versions) }) >= 2

----------------------------------------------------------------------------
(* A further claim about the MCP merger, checked under SpecMcp *)

\* the names of the servers a text writes down, in whatever syntax
ServersDefinedIn(text) ==
    IF text.syn \in {"json", "jsonc", "toml", "yaml"}
      THEN DOMAIN text.cfg.mcpServers ELSE {}

\* C29: mergeMcpAssets, given two assets or more, returns a text in which
\* every server name written in the content of any of the assets appears,
\* in the merged config or in the concatenation, whichever assets fail to
\* parse.
C29_NoInputDropped ==
    (mcp.phase = "assets-merged" /\ Len(mcp.assets) >= 2) =>
        /\ mcp.out.kind # "null"
        /\ \A a \in 1..Len(mcp.assets) :
              ServersDefinedIn(mcp.assets[a].content)
                \subseteq UNION { ServersDefinedIn(mcp.out.parts[i]) :
                                    i \in 1..Len(mcp.out.parts) }

----------------------------------------------------------------------------
(* A further claim about the counters of applyPlan, checked under Spec *)

\* the entries the loop of applyPlan has taken up: all of them, or those up
\* to the one it stopped at
Processed == IF idx > Len(plan) THEN Len(plan) ELSE idx

\* C30: when applyPlan returns, applied + skipped + failed is the number of
\* entries it processed, each counted once; that number is the length of the
\* plan when nothing failed; failed is never more than 1.
C30_CountersAccountForEveryEntry ==
    pc = "done" =>
        /\ result.applied + result.skipped + result.failed = Processed
        /\ result.failed = 0 => Processed = Len(plan)
        /\ result.failed <= 1

\* a run that applied an entry, then failed at the next one
C30_Witness ==
    /\ pc = "done"
    /\ result.failed = 1
    /\ result.applied = 1
    /\ Processed = 2

====
